---- MODULE Spec2Model ----
(***************************************************************************)
(* Persistence model of the recipe service (class RecipeDatabase).         *)
(* The SQLite file is a record of tables; every SQL statement is one       *)
(* operator on a session (tables + pending error), every db.transaction()  *)
(* body is a fold of statements that is committed or rolled back as a      *)
(* whole.                                                                  *)
(***************************************************************************)
EXTENDS Integers, Sequences, FiniteSets, Bags, TLC

\* ------------------------------------------------------------------ bounds
\* Spec: recipe identifiers issued in one behaviour
MaxRecipes == 1
\* Spec: list elements (cuisines + ingredients + steps) carried by one body
MaxItems == 2
\* association rows (recipe_cuisines + recipe_steps + recipe_ingredients) stored
MaxRows == 2
\* SpecPair: recipe identifiers issued in one behaviour
PairRecipes == 2
\* SpecPair: list elements carried by one body
PairItems == 1
\* SpecRace, SpecRead: recipe identifiers issued in one behaviour
RaceRecipes == 1
\* SpecStamp, SpecList: seconds that pass in one behaviour
MaxClock == 1
\* SpecList: recipe identifiers issued in one behaviour
ListRecipes == 2
\* SpecList: the pages a filter can ask for
MaxPage == 3
\* SpecList: the largest limit a filter can ask for
MaxLimit == 2
\* SpecList: fields one call supplies (the cuisineId of getRecipesByCuisine included)
MaxFilterFields == 3
\* SpecById: recipes ever created
ByIdRecipes == 2
\* SpecBoot: rows ever inserted into the recipes table of db.ts
BootRecipes == 3
\* SpecAuth: user identifiers a token or a session can name
AuthUsers == 2

\* ------------------------------------------------------- input vocabularies
Emails == {"chef@demo.com"}
CuisineNames == {"Italian"}
IngredientNames == {"Pasta", "Salt"}
RecipeNames == {"Carbonara", "Tacos"}
Descriptions == {"", "Classic"}

\* an identifier that names no row (a random UUID never stored)
UnknownId == 0
UserIdPool == {UnknownId, 1}
CuisineIdPool == {1, 2}

\* ------------------------------------------------------- optional values
\* an optional JS value: <<>> is undefined, <<v>> is v
Absent == <<>>
Some(v) == <<v>>
Opt(S) == {Absent} \cup {Some(v) : v \in S}

\* JS truthiness of an optional string / array
TruthyStr(o) == o # Absent /\ o[1] # ""
TruthyArr(o) == o # Absent

\* ------------------------------------------------------------ the database
NoError == ""
UNIQUE == "SQLITE_CONSTRAINT_UNIQUE"
FOREIGNKEY == "SQLITE_CONSTRAINT_FOREIGNKEY"

EmptyDb ==
  [ users              |-> {},
    cuisines           |-> {},
    ingredients        |-> {},
    recipes            |-> {},
    recipe_cuisines    |-> EmptyBag,
    recipe_steps       |-> EmptyBag,
    recipe_ingredients |-> EmptyBag ]

\* a session on the connection: the tables as the connection sees them, the
\* error thrown by the last failing statement, the value last returned
Begin(d) == [db |-> d, err |-> NoError, ret |-> 0]
Throw(s, e) == [s EXCEPT !.err = e]

Ids(rows) == {r.id : r \in rows}
FreshId(rows) == CHOOSE n \in 1..(Cardinality(rows) + 1) :
                   /\ n \notin Ids(rows)
                   /\ \A m \in 1..(Cardinality(rows) + 1) : m \notin Ids(rows) => n <= m

AddRow(B, r) == B (+) SetToBag({r})
RowsOf(B, id) == {r \in BagToSet(B) : r.recipe_id = id}
DeleteRowsOf(B, id) == [r \in {x \in BagToSet(B) : x.recipe_id # id} |-> B[r]]

\* ---------------------------------------------------------- SQL statements
\* A statement on a session whose error is pending is never reached: the
\* exception has left the enclosing function.

\* InsertUser on a table whose email column is not declared UNIQUE
InsertUserNoUnique(s, email) ==
  IF s.err # NoError THEN s
  ELSE LET id == FreshId(s.db.users) IN
       [s EXCEPT !.db.users = @ \cup {[id |-> id, email |-> email]}, !.ret = id]

\* INSERT INTO users: email TEXT UNIQUE NOT NULL
InsertUser(s, email) ==
  IF s.err # NoError THEN s
  ELSE IF \E u \in s.db.users : u.email = email THEN Throw(s, UNIQUE)
  ELSE LET id == FreshId(s.db.users) IN
       [s EXCEPT !.db.users = @ \cup {[id |-> id, email |-> email]}, !.ret = id]

\* INSERT INTO cuisines: name TEXT UNIQUE NOT NULL
InsertCuisine(s, name) ==
  IF s.err # NoError THEN s
  ELSE IF \E c \in s.db.cuisines : c.name = name THEN Throw(s, UNIQUE)
  ELSE LET id == FreshId(s.db.cuisines) IN
       [s EXCEPT !.db.cuisines = @ \cup {[id |-> id, name |-> name]}, !.ret = id]

\* SELECT * FROM ingredients WHERE name = ?  (.get(): one row or null)
SelectIngredientByName(d, name) ==
  LET hits == {i \in d.ingredients : i.name = name} IN
  IF hits = {} THEN Absent
  ELSE Some(CHOOSE i \in hits : \A j \in hits : i.id <= j.id)

\* InsertIngredient on a table whose name column is not declared UNIQUE
InsertIngredientNoUnique(s, name) ==
  IF s.err # NoError THEN s
  ELSE LET id == FreshId(s.db.ingredients) IN
       [s EXCEPT !.db.ingredients = @ \cup {[id |-> id, name |-> name]}, !.ret = id]

\* INSERT INTO ingredients: name TEXT UNIQUE NOT NULL
InsertIngredient(s, name) ==
  IF s.err # NoError THEN s
  ELSE IF \E i \in s.db.ingredients : i.name = name THEN Throw(s, UNIQUE)
  ELSE LET id == FreshId(s.db.ingredients) IN
       [s EXCEPT !.db.ingredients = @ \cup {[id |-> id, name |-> name]}, !.ret = id]

\* INSERT INTO recipes: three foreign keys into users
InsertRecipe(s, row) ==
  IF s.err # NoError THEN s
  ELSE IF {row.author_id, row.created_by, row.updated_by} \subseteq Ids(s.db.users)
  THEN [s EXCEPT !.db.recipes = @ \cup {row}, !.ret = row.id]
  ELSE Throw(s, FOREIGNKEY)

\* INSERT INTO recipe_cuisines: UNIQUE(recipe_id, cuisine_id), two foreign keys
InsertRecipeCuisine(s, rid, cid) ==
  IF s.err # NoError THEN s
  ELSE IF \E r \in BagToSet(s.db.recipe_cuisines) : r.recipe_id = rid /\ r.cuisine_id = cid
  THEN Throw(s, UNIQUE)
  ELSE IF rid \in Ids(s.db.recipes) /\ cid \in Ids(s.db.cuisines)
  THEN [s EXCEPT !.db.recipe_cuisines =
                   AddRow(@, [recipe_id |-> rid, cuisine_id |-> cid])]
  ELSE Throw(s, FOREIGNKEY)

\* InsertRecipeStep on a table declared without UNIQUE(recipe_id, step_number)
InsertRecipeStepNoUnique(s, rid, step) ==
  IF s.err # NoError THEN s
  ELSE IF rid \in Ids(s.db.recipes)
  THEN [s EXCEPT !.db.recipe_steps =
                   AddRow(@, [recipe_id |-> rid, step_number |-> step.step_number,
                              instruction |-> step.instruction])]
  ELSE Throw(s, FOREIGNKEY)

\* INSERT INTO recipe_steps: UNIQUE(recipe_id, step_number), one foreign key
InsertRecipeStep(s, rid, step) ==
  IF s.err # NoError THEN s
  ELSE IF \E r \in BagToSet(s.db.recipe_steps) :
            r.recipe_id = rid /\ r.step_number = step.step_number
  THEN Throw(s, UNIQUE)
  ELSE IF rid \in Ids(s.db.recipes)
  THEN [s EXCEPT !.db.recipe_steps =
                   AddRow(@, [recipe_id |-> rid, step_number |-> step.step_number,
                              instruction |-> step.instruction])]
  ELSE Throw(s, FOREIGNKEY)

\* INSERT INTO recipe_ingredients: UNIQUE(recipe_id, ingredient_id), two foreign keys
InsertRecipeIngredient(s, rid, iid, quantity, unit) ==
  IF s.err # NoError THEN s
  ELSE IF \E r \in BagToSet(s.db.recipe_ingredients) :
            r.recipe_id = rid /\ r.ingredient_id = iid
  THEN Throw(s, UNIQUE)
  ELSE IF rid \in Ids(s.db.recipes) /\ iid \in Ids(s.db.ingredients)
  THEN [s EXCEPT !.db.recipe_ingredients =
                   AddRow(@, [recipe_id |-> rid, ingredient_id |-> iid,
                              quantity |-> quantity, unit |-> unit])]
  ELSE Throw(s, FOREIGNKEY)

\* DeleteRecipeCuisines without its WHERE clause
DeleteAllRecipeCuisines(s, rid) ==
  IF s.err # NoError THEN s
  ELSE [s EXCEPT !.db.recipe_cuisines = EmptyBag]

\* DELETE FROM recipe_cuisines / recipe_steps / recipe_ingredients WHERE recipe_id = ?
DeleteRecipeCuisines(s, rid) ==
  IF s.err # NoError THEN s
  ELSE [s EXCEPT !.db.recipe_cuisines = DeleteRowsOf(@, rid)]

\* DeleteRecipeSteps left out: the new steps are inserted next to the old
KeepRecipeSteps(s, rid) == s

DeleteRecipeSteps(s, rid) ==
  IF s.err # NoError THEN s
  ELSE [s EXCEPT !.db.recipe_steps = DeleteRowsOf(@, rid)]

DeleteRecipeIngredients(s, rid) ==
  IF s.err # NoError THEN s
  ELSE [s EXCEPT !.db.recipe_ingredients = DeleteRowsOf(@, rid)]

\* COALESCE(?, column): the bound value unless it is NULL
Coalesce(o, stored) == IF o = Absent THEN stored ELSE o[1]

\* a || null: the value unless it is falsy (undefined, the empty string)
OrNull(o) == IF TruthyStr(o) THEN o ELSE Absent

\* UPDATE recipes SET name = COALESCE(?, name), description = COALESCE(?, description),
\*   updated_by = ?, updated_at = CURRENT_TIMESTAMP WHERE id = ?
\* (updated_by is a foreign key into users; now is CURRENT_TIMESTAMP)
UpdateRecipeRow(s, id, name, description, userId, now) ==
  IF s.err # NoError THEN s
  ELSE IF id \notin Ids(s.db.recipes) THEN s
  ELSE IF userId \notin Ids(s.db.users) THEN Throw(s, FOREIGNKEY)
  ELSE [s EXCEPT !.db.recipes =
          {IF r.id = id
           THEN [r EXCEPT !.name = Coalesce(name, @),
                          !.description = Coalesce(description, @),
                          !.updated_by = userId,
                          !.updated_at = now]
           ELSE r : r \in @}]

\* foreign keys without ON DELETE CASCADE enforcement: the dependent rows stay
NoCascade(d, id) == d

\* ON DELETE CASCADE from recipes to the three dependent tables
CascadeDelete(d, id) ==
  [d EXCEPT !.recipe_cuisines = DeleteRowsOf(@, id),
            !.recipe_steps = DeleteRowsOf(@, id),
            !.recipe_ingredients = DeleteRowsOf(@, id)]

\* DELETE FROM recipes WHERE id = ?
DeleteRecipe(s, id) ==
  IF s.err # NoError THEN s
  ELSE [s EXCEPT !.db = CascadeDelete([@ EXCEPT !.recipes = {r \in @ : r.id # id}], id)]

\* DeleteCuisineRow with recipe_cuisines.cuisine_id declared ON DELETE CASCADE
DeleteCuisineRowCascade(s, id) ==
  IF s.err # NoError THEN s
  ELSE [s EXCEPT !.db.cuisines = {c \in @ : c.id # id},
                 !.db.recipe_cuisines =
                    [rc \in {x \in BagToSet(@) : x.cuisine_id # id} |-> @[rc]]]

\* DeleteCuisineRow with recipe_cuisines.cuisine_id not declared a foreign key
DeleteCuisineRowUnchecked(s, id) ==
  IF s.err # NoError THEN s
  ELSE [s EXCEPT !.db.cuisines = {c \in @ : c.id # id}]

\* DELETE FROM cuisines WHERE id = ?: recipe_cuisines.cuisine_id references
\* cuisines(id) without ON DELETE, so a referenced row cannot be deleted
DeleteCuisineRow(s, id) ==
  IF s.err # NoError THEN s
  ELSE IF \E rc \in BagToSet(s.db.recipe_cuisines) : rc.cuisine_id = id
  THEN Throw(s, FOREIGNKEY)
  ELSE [s EXCEPT !.db.cuisines = {c \in @ : c.id # id}]

\* the statements run without a transaction: each one commits on its own
CommitEachStatement(d, s) == s

\* a rollback that does not reach the ingredients table
RollbackKeepsCatalog(d, s) ==
  IF s.err = NoError THEN s ELSE [s EXCEPT !.db = [d EXCEPT !.ingredients = s.db.ingredients]]

\* db.transaction(fn)(): BEGIN, fn, then COMMIT, or ROLLBACK and rethrow
Transaction(d, s) == IF s.err = NoError THEN s ELSE [s EXCEPT !.db = d]

\* ------------------------------------------------- RecipeDatabase methods
\* createUser
CreateUserDb(d, email) == InsertUser(Begin(d), email)

\* createCuisine
CreateCuisineDb(d, name) == InsertCuisine(Begin(d), name)

\* deleteCuisine
DeleteCuisineDb(d, id) == DeleteCuisineRow(Begin(d), id)

\* createIngredient: returns the new id or throws
CreateIngredient(s, name) == InsertIngredient(s, name)

\* createRecipe, lines 505-519: try createIngredient; on SQLITE_CONSTRAINT_UNIQUE
\* look the name up and use the existing id, rethrow anything else
ResolveOnCreate(s, name) ==
  IF s.err # NoError THEN s
  ELSE LET a == CreateIngredient(s, name) IN
       IF a.err = NoError THEN a
       ELSE IF a.err = UNIQUE
       THEN LET existing == SelectIngredientByName(s.db, name) IN
            IF existing # Absent THEN [s EXCEPT !.ret = existing[1].id] ELSE a
       ELSE a

\* getOrCreateIngredientSync: SELECT by name; INSERT when there is no row
GetOrCreateIngredientSync(s, name) ==
  IF s.err # NoError THEN s
  ELSE LET ingredient == SelectIngredientByName(s.db, name) IN
       IF ingredient = Absent THEN InsertIngredient(s, name)
       ELSE [s EXCEPT !.ret = ingredient[1].id]

\* a || 0 and a || '' on a required field of the body
OrZero(q) == IF q = 0 THEN 0 ELSE q
OrEmpty(u) == IF u = "" THEN "" ELSE u

RECURSIVE CreateCuisineLoop(_, _, _)
CreateCuisineLoop(s, id, cuisines) ==
  IF cuisines = <<>> THEN s
  ELSE CreateCuisineLoop(InsertRecipeCuisine(s, id, Head(cuisines)), id, Tail(cuisines))

RECURSIVE CreateIngredientLoop(_, _, _)
CreateIngredientLoop(s, id, ingredients) ==
  IF ingredients = <<>> THEN s
  ELSE LET ingredient == Head(ingredients)
           r == ResolveOnCreate(s, ingredient.name)
       IN CreateIngredientLoop(
            InsertRecipeIngredient(r, id, r.ret, OrZero(ingredient.quantity),
                                   OrEmpty(ingredient.unit)),
            id, Tail(ingredients))

\* the steps numbered by their position in the list instead of as given
RECURSIVE StepLoopRenumbered(_, _, _)
StepLoopRenumbered(s, id, steps) ==
  IF steps = <<>> THEN s
  ELSE StepLoopRenumbered(
         InsertRecipeStep(s, id, [Head(steps) EXCEPT !.step_number =
                                    Cardinality(RowsOf(s.db.recipe_steps, id)) + 1]),
         id, Tail(steps))

RECURSIVE StepLoop(_, _, _)
StepLoop(s, id, steps) ==
  IF steps = <<>> THEN s
  ELSE StepLoop(InsertRecipeStep(s, id, Head(steps)), id, Tail(steps))

\* createRecipe(recipe) with the fresh identifier id, at the second `now`
\* (created_at and updated_at default to CURRENT_TIMESTAMP)
CreateRecipeDb(d, id, recipe, now) ==
  LET authorId == IF recipe.author_id # Absent THEN recipe.author_id[1] ELSE UnknownId
      createdBy == authorId
      updatedBy == authorId
      s0 == Begin(d)
      s1 == InsertRecipe(s0, [id |-> id, name |-> recipe.name,
                              description |-> recipe.description,
                              author_id |-> authorId, created_by |-> createdBy,
                              updated_by |-> updatedBy,
                              created_at |-> now, updated_at |-> now])
      s2 == IF Len(recipe.cuisines) > 0 THEN CreateCuisineLoop(s1, id, recipe.cuisines) ELSE s1
      s3 == IF Len(recipe.ingredients) > 0
            THEN CreateIngredientLoop(s2, id, recipe.ingredients) ELSE s2
      s4 == IF Len(recipe.steps) > 0 THEN StepLoop(s3, id, recipe.steps) ELSE s3
  IN [Transaction(d, s4) EXCEPT !.ret = id]

RECURSIVE UpdateCuisineLoop(_, _, _)
UpdateCuisineLoop(s, id, cuisines) ==
  IF cuisines = <<>> THEN s
  ELSE UpdateCuisineLoop(InsertRecipeCuisine(s, id, Head(cuisines)), id, Tail(cuisines))

RECURSIVE UpdateIngredientLoop(_, _, _)
UpdateIngredientLoop(s, id, ingredients) ==
  IF ingredients = <<>> THEN s
  ELSE LET ingredient == Head(ingredients)
           r == GetOrCreateIngredientSync(s, ingredient.name)
       IN UpdateIngredientLoop(
            InsertRecipeIngredient(r, id, r.ret, ingredient.quantity, ingredient.unit),
            id, Tail(ingredients))

\* updateRecipe(id, recipeData, userId), at the second `now`
UpdateRecipeDb(d, id, recipeData, userId, now) ==
  LET s0 == Begin(d)
      s1 == IF TruthyStr(recipeData.name) \/ TruthyStr(recipeData.description)
            THEN UpdateRecipeRow(s0, id, OrNull(recipeData.name),
                                 OrNull(recipeData.description), userId, now)
            ELSE s0
      s2 == IF TruthyArr(recipeData.cuisines)
            THEN UpdateCuisineLoop(DeleteRecipeCuisines(s1, id), id, recipeData.cuisines[1])
            ELSE s1
      s3 == IF TruthyArr(recipeData.steps)
            THEN StepLoop(DeleteRecipeSteps(s2, id), id, recipeData.steps[1])
            ELSE s2
      s4 == IF TruthyArr(recipeData.ingredients)
            THEN UpdateIngredientLoop(DeleteRecipeIngredients(s3, id), id,
                                      recipeData.ingredients[1])
            ELSE s3
  IN Transaction(d, s4)

\* archiveRecipe(id)
ArchiveRecipeDb(d, id) == DeleteRecipe(Begin(d), id)

\* the four queries of getRecipeById
SelectRecipe(d, id) ==
  LET hits == {r \in d.recipes : r.id = id} IN
  IF hits = {} THEN Absent ELSE Some(CHOOSE r \in hits : TRUE)

\* SELECT c.* FROM cuisines c JOIN recipe_cuisines rc ON c.id = rc.cuisine_id
\* WHERE rc.recipe_id = ?   (one result row per association row)
SelectCuisinesOf(d, id) ==
  LET key(c) == [recipe_id |-> id, cuisine_id |-> c.id] IN
  [c \in {x \in d.cuisines : key(x) \in DOMAIN d.recipe_cuisines}
     |-> d.recipe_cuisines[key(c)]]

RECURSIVE OrderByStepNumber(_)
OrderByStepNumber(B) ==
  IF DOMAIN B = {} THEN <<>>
  ELSE LET r == CHOOSE x \in DOMAIN B : \A y \in DOMAIN B : x.step_number <= y.step_number
           rest == IF B[r] = 1 THEN [x \in DOMAIN B \ {r} |-> B[x]]
                   ELSE [B EXCEPT ![r] = @ - 1]
       IN <<r>> \o OrderByStepNumber(rest)

\* SELECT * FROM recipe_steps ORDER BY step_number: the steps of every recipe
SelectAllSteps(d, id) == OrderByStepNumber(d.recipe_steps)

\* SELECT * FROM recipe_steps WHERE recipe_id = ? ORDER BY step_number
SelectStepsOf(d, id) ==
  OrderByStepNumber([r \in RowsOf(d.recipe_steps, id) |-> d.recipe_steps[r]])

\* SELECT ri.*, i.name as ingredient_name FROM recipe_ingredients ri
\* JOIN ingredients i ON ri.ingredient_id = i.id WHERE ri.recipe_id = ?
SelectIngredientsOf(d, id) ==
  LET joined == {p \in RowsOf(d.recipe_ingredients, id) \X d.ingredients :
                   p[1].ingredient_id = p[2].id}
      out(p) == [recipe_id |-> p[1].recipe_id, ingredient_id |-> p[1].ingredient_id,
                 quantity |-> p[1].quantity, unit |-> p[1].unit,
                 ingredient_name |-> p[2].name]
  IN [x \in {out(p) : p \in joined} |->
        LET src == CHOOSE p \in joined : out(p) = x IN d.recipe_ingredients[src[1]]]

\* getRecipeById(id) run against one state of the tables: null, or the
\* recipe row with its cuisines, steps and ingredients attached
GetRecipeById(d, id) ==
  LET recipe == SelectRecipe(d, id) IN
  IF recipe = Absent THEN Absent
  ELSE Some([recipe |-> recipe[1],
             cuisines |-> SelectCuisinesOf(d, id),
             steps |-> SelectStepsOf(d, id),
             ingredients |-> SelectIngredientsOf(d, id)])

\* ------------------------------------------------------- passwords and tokens
\* PasswordService: validatePassword accepts a strong password; hash is one-way
\* and compare(password, hash) holds exactly for the hash of that password
PasswordService ==
  [validatePassword |-> [p \in {"Passw0rd!", "Secret123!", "weak"} |-> p # "weak"],
   hash |-> [p \in {"Passw0rd!", "Secret123!", "weak"} |-> <<"bcrypt", p>>]]

\* jwt.sign(payload, config.jwtSecret, { expiresIn, issuer, audience })
GenerateAccessToken(payload) ==
  [payload |-> payload, expiresIn |-> "1h", iss |-> "recipes-api",
   aud |-> "recipes-app", key |-> "jwtSecret"]
GenerateRefreshToken(payload) ==
  [payload |-> payload, expiresIn |-> "7d", iss |-> "recipes-api",
   aud |-> "recipes-app", key |-> "jwtSecret"]

\* jwt.verify(token, config.jwtSecret, { issuer, audience }): the payload, or
\* Absent where the method throws (no token of the model is old enough to
\* have expired)
VerifyAccessToken(token) ==
  IF token.key = "jwtSecret" /\ token.iss = "recipes-api" /\ token.aud = "recipes-app"
  THEN Some(token.payload) ELSE Absent
VerifyRefreshToken(token) ==
  IF token.key = "jwtSecret" /\ token.iss = "recipes-api" /\ token.aud = "recipes-app"
  THEN Some(token.payload) ELSE Absent

\* ------------------------------------------------------------- text values
Range(f) == {f[i] : i \in DOMAIN f}

\* the characters of the text values the model uses
Chars(str) ==
  CASE str = "" -> <<>>
    [] str = "Carbonara" -> <<"C", "a", "r", "b", "o", "n", "a", "r", "a">>
    [] str = "Tacos" -> <<"T", "a", "c", "o", "s">>
    [] str = "Classic" -> <<"C", "l", "a", "s", "s", "i", "c">>
    [] str = "Pasta" -> <<"P", "a", "s", "t", "a">>
    [] str = "Salt" -> <<"S", "a", "l", "t">>
    [] str = "tac" -> <<"t", "a", "c">>
    [] str = "AS" -> <<"A", "S">>
    [] str = "_" -> <<"_">>

\* ASCII case folding, as LIKE applies it
Lower(ch) ==
  CASE ch = "A" -> "a" [] ch = "C" -> "c" [] ch = "P" -> "p"
    [] ch = "S" -> "s" [] ch = "T" -> "t" [] OTHER -> ch

\* text LIKE pattern: % matches any run of characters, _ any one character,
\* every other character itself without regard to case
RECURSIVE LikeMatch(_, _)
LikeMatch(pattern, text) ==
  IF pattern = <<>> THEN text = <<>>
  ELSE IF Head(pattern) = "%"
  THEN LikeMatch(Tail(pattern), text) \/ (text # <<>> /\ LikeMatch(pattern, Tail(text)))
  ELSE /\ text # <<>>
       /\ Head(pattern) = "_" \/ Lower(Head(pattern)) = Lower(Head(text))
       /\ LikeMatch(Tail(pattern), Tail(text))

\* column LIKE ? with the parameter `%${search}%`
Like(column, search) == LikeMatch(<<"%">> \o Chars(search) \o <<"%">>, Chars(column))

\* BINARY collation of the recipe names the model uses
NameOrder == <<"Carbonara", "Tacos">>
NameRank(name) == CHOOSE i \in DOMAIN NameOrder : NameOrder[i] = name

\* ------------------------------------------------------------ list queries
DefaultLimit == 20
SqliteError == "SQLITE_ERROR"
OrDefault(o, default) == IF o = Absent THEN default ELSE o[1]

\* the WHERE clause getRecipes builds from the filter, applied to recipes row r
Where(d, filter, r) ==
  LET cuisines == OrDefault(filter.cuisines, <<>>) IN
  /\ filter.author_id # Absent => r.author_id = filter.author_id[1]
  /\ Len(cuisines) > 0 =>
       \E rc \in RowsOf(d.recipe_cuisines, r.id) : rc.cuisine_id \in Range(cuisines)
  /\ TruthyStr(filter.search) =>
       \/ Like(r.name, filter.search[1])
       \/ Like(r.description, filter.search[1])
       \/ \E ri \in RowsOf(d.recipe_ingredients, r.id) :
            \E i \in d.ingredients : i.id = ri.ingredient_id /\ Like(i.name, filter.search[1])

\* the columns of recipes that ORDER BY r.<sortBy> can name
SortColumns == {"name", "created_at", "updated_at"}
SortKey(r, sortBy) ==
  CASE sortBy = "name" -> NameRank(r.name)
    [] sortBy = "created_at" -> r.created_at
    [] sortBy = "updated_at" -> r.updated_at

\* ORDER BY r.<sortBy> <sortOrder> over the groups of GROUP BY r.id: rows with
\* equal keys stay in the order of the primary key scan
Before(a, b, sortBy, sortOrder) ==
  \/ IF sortOrder = "asc" THEN SortKey(a, sortBy) < SortKey(b, sortBy)
     ELSE SortKey(a, sortBy) > SortKey(b, sortBy)
  \/ SortKey(a, sortBy) = SortKey(b, sortBy) /\ a.id < b.id

RECURSIVE OrderBy(_, _, _)
OrderBy(rows, sortBy, sortOrder) ==
  IF rows = {} THEN <<>>
  ELSE LET first == CHOOSE a \in rows :
                      \A b \in rows \ {a} : Before(a, b, sortBy, sortOrder)
       IN <<first>> \o OrderBy(rows \ {first}, sortBy, sortOrder)

\* LIMIT ? alone: every page starts at the first row
LimitNoOffset(rows, limit, offset) ==
  SubSeq(rows, 1, IF limit < Len(rows) THEN limit ELSE Len(rows))

\* LIMIT ? OFFSET ?
LimitOffset(rows, limit, offset) ==
  SubSeq(rows, offset + 1, IF offset + limit < Len(rows) THEN offset + limit ELSE Len(rows))

\* one result row: r.* with GROUP_CONCAT(c.name) over all cuisines of r
ListRow(d, r) ==
  [recipe |-> r,
   cuisine_names |-> {c.name : c \in {x \in d.cuisines :
                        \E rc \in RowsOf(d.recipe_cuisines, r.id) : rc.cuisine_id = x.id}}]

\* getRecipes(filter): the count query, then the page query
GetRecipesDb(d, filter) ==
  LET page == OrDefault(filter.page, 1)
      limit == OrDefault(filter.limit, DefaultLimit)
      sortBy == OrDefault(filter.sortBy, "created_at")
      sortOrder == OrDefault(filter.sortOrder, "desc")
      selected == {r \in d.recipes : Where(d, filter, r)}
      total == Cardinality(selected)
      offset == (page - 1) * limit
  IN IF sortBy \notin SortColumns
     THEN [err |-> SqliteError, ret |-> Absent]
     ELSE LET sorted == OrderBy(selected, sortBy, sortOrder)
              recipes == LimitOffset(sorted, limit, offset)
          IN [err |-> NoError,
              ret |-> Some([recipes |-> [i \in DOMAIN recipes |-> ListRow(d, recipes[i])],
                            total |-> total])]

\* { cuisines: [cuisineId], ...filter }: the filter's own cuisines win
GetRecipesByOwnCuisinesDb(d, cuisineId, filter) ==
  LET newFilter == IF filter.cuisines = Absent
                   THEN [filter EXCEPT !.cuisines = Some(<<cuisineId>>)] ELSE filter
      res == GetRecipesDb(d, newFilter)
  IN IF res.err # NoError THEN res ELSE [res EXCEPT !.ret = Some(@[1].recipes)]

\* getRecipesByCuisine(cuisineId, filter)
GetRecipesByCuisineDb(d, cuisineId, filter) ==
  LET newFilter == [filter EXCEPT !.cuisines = Some(<<cuisineId>>)]
      res == GetRecipesDb(d, newFilter)
  IN IF res.err # NoError THEN res ELSE [res EXCEPT !.ret = Some(@[1].recipes)]

\* BINARY collation of the cuisine names the model uses
CuisineOrder == <<"Italian", "Mexican">>
CuisineRank(name) == CHOOSE i \in DOMAIN CuisineOrder : CuisineOrder[i] = name

RECURSIVE OrderByName(_)
OrderByName(cuisines) ==
  IF cuisines = {} THEN <<>>
  ELSE LET first == CHOOSE a \in cuisines :
                      \A b \in cuisines : CuisineRank(a.name) <= CuisineRank(b.name)
       IN <<first>> \o OrderByName(cuisines \ {first})

\* getCuisines(): SELECT * FROM cuisines ORDER BY name
GetCuisinesDb(d) == OrderByName(d.cuisines)

\* the two LEFT JOINs without the WHERE: every cuisine makes a group
HasJoinedRow(d, c) == c \in d.cuisines

\* WHERE r.id IS NOT NULL over the two LEFT JOINs: the cuisine has a joined recipe
HasRecipe(d, c) ==
  \E rc \in BagToSet(d.recipe_cuisines) : rc.cuisine_id = c.id /\ rc.recipe_id \in Ids(d.recipes)

\* one group of GROUP BY c.id, c.name: COUNT(r.id) and the parsed recipes_json
GroupOf(d, c) ==
  LET joined == {rc \in BagToSet(d.recipe_cuisines) :
                   rc.cuisine_id = c.id /\ rc.recipe_id \in Ids(d.recipes)}
      object(rc) == LET r == CHOOSE x \in d.recipes : x.id = rc.recipe_id
                    IN [id |-> r.id, name |-> r.name, description |-> r.description]
      objects == {object(rc) : rc \in joined}
      copies(o) == LET rows == {rc \in joined : object(rc) = o}
                   IN BagCardinality([rc \in rows |-> d.recipe_cuisines[rc]])
  IN [cuisine_id |-> c.id, cuisine_name |-> c.name,
      recipe_count |-> BagCardinality([rc \in joined |-> d.recipe_cuisines[rc]]),
      recipes |-> [o \in objects |-> copies(o)]]

\* getRecipesGroupedByCuisine(): one entry per group, ORDER BY c.name ASC
GetRecipesGroupedByCuisineDb(d) ==
  LET groups == OrderByName({c \in d.cuisines : HasRecipe(d, c)})
  IN [i \in DOMAIN groups |-> GroupOf(d, groups[i])]

\* ------------------------------------------------------------ request bodies
SeqsUpTo(S, n) == UNION {[1..k -> S] : k \in 0..n}
OptLen(o) == IF o = Absent THEN 0 ELSE Len(o[1])

IngredientInputs ==
  { [name |-> "Pasta", quantity |-> 400, unit |-> "grams"],
    [name |-> "Pasta", quantity |-> 500, unit |-> "grams"],
    [name |-> "Salt", quantity |-> 0, unit |-> "pinch"] }

StepInputs ==
  { [step_number |-> 1, instruction |-> "Boil"],
    [step_number |-> 3, instruction |-> "Mix"] }

\* bodies admitted by createRecipeSchema, with the author the caller passes
CreateBodies ==
  {b \in [name : RecipeNames, description : Descriptions,
          author_id : Opt(UserIdPool \ {UnknownId}),
          cuisines : SeqsUpTo(CuisineIdPool, MaxItems),
          ingredients : SeqsUpTo(IngredientInputs, MaxItems),
          steps : SeqsUpTo(StepInputs, MaxItems)] :
     Len(b.cuisines) + Len(b.ingredients) + Len(b.steps) <= MaxItems}

\* bodies admitted by updateRecipeSchema: every field optional
UpdateBodies ==
  {b \in [name : Opt(RecipeNames), description : Opt(Descriptions),
          cuisines : Opt(SeqsUpTo(CuisineIdPool, MaxItems)),
          ingredients : Opt(SeqsUpTo(IngredientInputs, MaxItems)),
          steps : Opt(SeqsUpTo(StepInputs, MaxItems))] :
     OptLen(b.cuisines) + OptLen(b.ingredients) + OptLen(b.steps) <= MaxItems}

\* the bodies of SpecPair: one cuisine, one ingredient, one step to choose from
PairIngredientInputs == {[name |-> "Pasta", quantity |-> 400, unit |-> "grams"]}
PairStepInputs == {[step_number |-> 1, instruction |-> "Boil"]}

PairCreateBodies ==
  {b \in [name : RecipeNames, description : Descriptions,
          author_id : Opt(UserIdPool \ {UnknownId}),
          cuisines : SeqsUpTo({1}, PairItems),
          ingredients : SeqsUpTo(PairIngredientInputs, PairItems),
          steps : SeqsUpTo(PairStepInputs, PairItems)] :
     Len(b.cuisines) + Len(b.ingredients) + Len(b.steps) <= PairItems}

PairUpdateBodies ==
  {b \in [name : Opt(RecipeNames), description : Opt(Descriptions),
          cuisines : Opt(SeqsUpTo({1}, PairItems)),
          ingredients : Opt(SeqsUpTo(PairIngredientInputs, PairItems)),
          steps : Opt(SeqsUpTo(PairStepInputs, PairItems))] :
     OptLen(b.cuisines) + OptLen(b.ingredients) + OptLen(b.steps) <= PairItems}

\* the bodies of SpecRace: one recipe whose only list is its ingredients
RaceCreateBodies ==
  {b \in PairCreateBodies : /\ b.name = "Carbonara" /\ b.description = "Classic"
                            /\ b.cuisines = <<>> /\ b.steps = <<>>}

RaceUpdateBodies ==
  {b \in PairUpdateBodies : /\ b.name = Absent /\ b.description = Absent
                            /\ b.cuisines = Absent /\ b.steps = Absent}

\* the bodies of SpecRead: one recipe; updates of its name and steps
ReadCreateBodies ==
  {b \in PairCreateBodies : /\ b.name = "Carbonara" /\ b.description = "Classic"
                            /\ b.author_id # Absent /\ b.cuisines = <<>>}

ReadUpdateBodies ==
  {b \in PairUpdateBodies : /\ b.name \in {Absent, Some("Tacos")}
                            /\ b.description = Absent /\ b.cuisines = Absent
                            /\ b.ingredients = Absent}

\* the bodies of SpecList: recipes by two authors, with no, one or two cuisines
ListCreateBodies ==
  {b \in [name : RecipeNames, description : {"", "Classic"},
          author_id : {Some(1), Some(2)},
          cuisines : {<<>>, <<1>>, <<1, 2>>},
          ingredients : SeqsUpTo(PairIngredientInputs, 1), steps : {<<>>}] :
     /\ (b.name = "Carbonara") = (b.author_id = Some(2))
     /\ (b.description = "Classic") = (b.author_id = Some(2))
     /\ (b.ingredients # <<>>) = (b.cuisines = <<1>>)}

\* the bodies of SpecById: no, one or two cuisines, no or one ingredient, no,
\* one or two steps (the later step first)
ByIdCreateBodies ==
  [name : {"Carbonara"}, description : {"Classic"}, author_id : {Some(1)},
   cuisines : {<<>>, <<1>>, <<2, 1>>},
   ingredients : SeqsUpTo({i \in IngredientInputs : i.quantity < 500}, 1),
   steps : {<<>>, <<[step_number |-> 1, instruction |-> "Boil"]>>,
            <<[step_number |-> 3, instruction |-> "Mix"],
              [step_number |-> 1, instruction |-> "Boil"]>>}]

\* the filters of SpecList (recipeFilterSchema), at most MaxFilterFields supplied
Supplied(filter) == {k \in DOMAIN filter : filter[k] # Absent}
Searches == {"tac", "AS", "_"}
ListFilters ==
  {f \in [page : Opt(1..MaxPage), limit : Opt(1..MaxLimit),
          sortBy : Opt({"name", "created_at", "updated_at", "author"}),
          sortOrder : Opt({"asc", "desc"}),
          cuisines : Opt({<<2>>, <<1, 2>>}),
          author_id : Opt({1, 2}),
          search : Opt(Searches)] :
     Cardinality(Supplied(f)) <= MaxFilterFields}

\* association rows held by the tables
Rows(d) == BagCardinality(d.recipe_cuisines) + BagCardinality(d.recipe_steps)
             + BagCardinality(d.recipe_ingredients)

\* ------------------------------------------------------------------- state
VARIABLES
  db,      \* the committed contents of recipes.db
  issued,  \* how many recipe identifiers createRecipe has handed out
  conn,    \* per connection: the call in progress and its outcome
  seen,    \* per connection running getRecipeById: what the tables held for
           \* its recipe at the first SELECT and after every commit since
  clock,   \* CURRENT_TIMESTAMP, in seconds since the database was opened
  requests \* the rate limiter's Map, as its entries [ip, count, resetTime]

vars == <<db, issued, conn, seen, clock, requests>>

\* the connections to recipes.db: every RecipeDatabase instance opens its own
Conns == {1, 2}

\* a connection's record: where its call stands (pc), the method and its
\* arguments, the method's local `ingredient`, what it threw or returned, and
\* the tables as they were when the call began
Idle == [pc |-> "idle", op |-> "", arg |-> <<>>, loc |-> <<>>, err |-> NoError,
         ret |-> <<>>, pre |-> <<>>]
Done(op, arg, err, ret, pre) ==
  [pc |-> "done", op |-> op, arg |-> arg, loc |-> <<>>, err |-> err, ret |-> ret,
   pre |-> pre]

\* a commit that leaves the tables as d, as the running reads may observe it
Observed(d) ==
  [c \in Conns |->
     IF conn[c].op = "getRecipeById" /\ conn[c].pc \notin {"idle", "done"}
     THEN seen[c] \cup {GetRecipeById(d, conn[c].arg.id)}
     ELSE seen[c]]

Init ==
  /\ db = EmptyDb
  /\ issued = 0
  /\ conn = [c \in Conns |-> Idle]
  /\ seen = [c \in Conns |-> {}]
  /\ clock = 0
  /\ requests = {}

\* ----------------------------------------------------------------- actions
\* the caller takes the result (or the exception) of its finished call
Respond(c) ==
  /\ conn[c].pc = "done"
  /\ conn' = [conn EXCEPT ![c] = Idle]
  /\ seen' = [seen EXCEPT ![c] = {}]
  /\ UNCHANGED <<db, issued, clock, requests>>

CreateUser(c, email) ==
  /\ conn[c].pc = "idle"
  /\ LET s == CreateUserDb(db, email) IN
     /\ db' = s.db
     /\ conn' = [conn EXCEPT ![c] =
                   Done("createUser", [email |-> email], s.err, Some(s.ret), db)]
  /\ seen' = Observed(db')
  /\ UNCHANGED <<issued, clock, requests>>

CreateCuisine(c, name) ==
  /\ conn[c].pc = "idle"
  /\ LET s == CreateCuisineDb(db, name) IN
     /\ db' = s.db
     /\ conn' = [conn EXCEPT ![c] =
                   Done("createCuisine", [name |-> name], s.err, Some(s.ret), db)]
  /\ seen' = Observed(db')
  /\ UNCHANGED <<issued, clock, requests>>

CreateRecipe(c, recipe, cap) ==
  /\ conn[c].pc = "idle"
  /\ issued < cap
  /\ LET id == issued + 1
         s == CreateRecipeDb(db, id, recipe, clock)
     IN /\ db' = s.db
        /\ issued' = IF s.err = NoError THEN id ELSE issued
        /\ conn' = [conn EXCEPT ![c] =
                      Done("createRecipe", [id |-> id, body |-> recipe], s.err, Some(id), db)]
        /\ seen' = Observed(db')
        /\ UNCHANGED <<clock, requests>>

UpdateRecipe(c, id, recipeData, userId) ==
  /\ conn[c].pc = "idle"
  /\ LET s == UpdateRecipeDb(db, id, recipeData, userId, clock) IN
     /\ db' = s.db
     /\ conn' = [conn EXCEPT ![c] =
                   Done("updateRecipe", [id |-> id, body |-> recipeData, userId |-> userId],
                        s.err, Absent, db)]
  /\ seen' = Observed(db')
  /\ UNCHANGED <<issued, clock, requests>>

ArchiveRecipe(c, id) ==
  /\ conn[c].pc = "idle"
  /\ LET s == ArchiveRecipeDb(db, id) IN
     /\ db' = s.db
     /\ conn' = [conn EXCEPT ![c] = Done("archiveRecipe", [id |-> id], s.err, Absent, db)]
  /\ seen' = Observed(db')
  /\ UNCHANGED <<issued, clock, requests>>

DeleteCuisine(c, id) ==
  /\ conn[c].pc = "idle"
  /\ LET s == DeleteCuisineDb(db, id) IN
     /\ db' = s.db
     /\ conn' = [conn EXCEPT ![c] = Done("deleteCuisine", [id |-> id], s.err, Absent, db)]
  /\ seen' = Observed(db')
  /\ UNCHANGED <<issued, clock, requests>>

\* RecipeController.createRecipe: the body (which createRecipeSchema gives no
\* author_id) goes to db.createRecipe, whose one parameter leaves the userId
\* argument unread; 201 with the new id, or 400 when the call throws
PostRecipe(c, body, cap) ==
  /\ conn[c].pc = "idle"
  /\ issued < cap
  /\ body.author_id = Absent
  /\ LET id == issued + 1
         s == CreateRecipeDb(db, id, body, clock)
     IN /\ db' = s.db
        /\ issued' = IF s.err = NoError THEN id ELSE issued
        /\ conn' = [conn EXCEPT ![c] =
                      Done("POST /recipes", [id |-> id, body |-> body], s.err,
                           IF s.err = NoError THEN Some([status |-> 201, id |-> id])
                           ELSE Some([status |-> 400, id |-> UnknownId]),
                           db)]
        /\ seen' = Observed(db')
  /\ UNCHANGED <<clock, requests>>

\* AuthController.register up to `await PasswordService.hash(password)`:
\* 400 for a weak password, 409 when getUserByEmail finds the email
RegisterCheck(c, email, password) ==
  /\ conn[c].pc = "idle"
  /\ conn' = [conn EXCEPT ![c] =
       IF ~PasswordService.validatePassword[password]
       THEN Done("register", [email |-> email, password |-> password], NoError,
                 Some([status |-> 400, error |-> "Password does not meet requirements",
                       tokens |-> <<>>]), db)
       ELSE IF \E u \in db.users : u.email = email
       THEN Done("register", [email |-> email, password |-> password], NoError,
                 Some([status |-> 409, error |-> "User with this email already exists",
                       tokens |-> <<>>]), db)
       ELSE [pc |-> "hash", op |-> "register",
             arg |-> [email |-> email, password |-> password], loc |-> <<>>,
             err |-> NoError, ret |-> Absent, pre |-> db]]
  /\ UNCHANGED <<db, issued, seen, clock, requests>>

\* AuthController.register after the hash: createUser (the row also takes the
\* password_hash and the default updated_at), the two tokens and 201; the
\* catch answers 500 when createUser throws
RegisterInsert(c) ==
  /\ conn[c].pc = "hash"
  /\ LET email == conn[c].arg.email
         s == CreateUserDb(db, email)
         row == [id |-> s.ret, email |-> email,
                 password_hash |-> PasswordService.hash[conn[c].arg.password],
                 updated_at |-> clock]
     IN IF s.err = NoError
        THEN /\ db' = [s.db EXCEPT !.users = (@ \ {[id |-> s.ret, email |-> email]}) \cup {row}]
             /\ conn' = [conn EXCEPT ![c] =
                  Done("register", conn[c].arg, NoError,
                       Some([status |-> 201, error |-> "",
                             tokens |-> <<GenerateAccessToken([userId |-> s.ret, email |-> email]),
                                          GenerateRefreshToken([userId |-> s.ret])>>]), db)]
        ELSE /\ db' = s.db
             /\ conn' = [conn EXCEPT ![c] =
                  Done("register", conn[c].arg, s.err,
                       Some([status |-> 500, error |-> "Registration failed",
                             tokens |-> <<>>]), db)]
  /\ UNCHANGED <<issued, seen, clock, requests>>

\* Login answering 404 'User not found' for an email no user holds
LoginNamesUnknown(c, email, password) ==
  /\ conn[c].pc = "idle"
  /\ LET found == {u \in db.users : u.email = email}
         user == CHOOSE u \in found : TRUE
     IN IF found = {} \/ user.password_hash # PasswordService.hash[password]
        THEN /\ conn' = [conn EXCEPT ![c] =
                  Done("login", [email |-> email, password |-> password], NoError,
                       IF found = {}
                       THEN Some([status |-> 404, error |-> "User not found", tokens |-> <<>>])
                       ELSE Some([status |-> 401, error |-> "Invalid email or password",
                                  tokens |-> <<>>]), db)]
             /\ UNCHANGED db
        ELSE /\ db' = [db EXCEPT !.users =
                         {IF u.id = user.id THEN [u EXCEPT !.updated_at = clock] ELSE u : u \in @}]
             /\ conn' = [conn EXCEPT ![c] =
                  Done("login", [email |-> email, password |-> password], NoError,
                       Some([status |-> 200, error |-> "",
                             tokens |-> <<GenerateAccessToken([userId |-> user.id,
                                                               email |-> user.email]),
                                          GenerateRefreshToken([userId |-> user.id])>>]), db)]
  /\ UNCHANGED <<issued, seen, clock, requests>>

\* AuthController.login
Login(c, email, password) ==
  /\ conn[c].pc = "idle"
  /\ LET found == {u \in db.users : u.email = email}
         user == CHOOSE u \in found : TRUE
         refused == Some([status |-> 401, error |-> "Invalid email or password",
                          tokens |-> <<>>])
     IN IF found = {} \/ user.password_hash # PasswordService.hash[password]
        THEN /\ conn' = [conn EXCEPT ![c] =
                  Done("login", [email |-> email, password |-> password], NoError, refused, db)]
             /\ UNCHANGED db
        ELSE /\ db' = [db EXCEPT !.users =
                         {IF u.id = user.id THEN [u EXCEPT !.updated_at = clock] ELSE u : u \in @}]
             /\ conn' = [conn EXCEPT ![c] =
                  Done("login", [email |-> email, password |-> password], NoError,
                       Some([status |-> 200, error |-> "",
                             tokens |-> <<GenerateAccessToken([userId |-> user.id,
                                                               email |-> user.email]),
                                          GenerateRefreshToken([userId |-> user.id])>>]), db)]
  /\ UNCHANGED <<issued, seen, clock, requests>>

\* AuthController.refreshToken
RefreshToken(c, refreshToken) ==
  /\ conn[c].pc = "idle"
  /\ LET payload == VerifyRefreshToken(refreshToken)
         found == IF payload = Absent THEN {}
                  ELSE {u \in db.users : u.id = payload[1].userId}
         user == CHOOSE u \in found : TRUE
     IN conn' = [conn EXCEPT ![c] =
          IF payload = Absent
          THEN Done("refresh", [refreshToken |-> refreshToken], NoError,
                    Some([status |-> 401, error |-> "Invalid refresh token", tokens |-> <<>>]), db)
          ELSE IF found = {}
          THEN Done("refresh", [refreshToken |-> refreshToken], NoError,
                    Some([status |-> 401, error |-> "User not found", tokens |-> <<>>]), db)
          ELSE Done("refresh", [refreshToken |-> refreshToken], NoError,
                    Some([status |-> 200, error |-> "",
                          tokens |-> <<GenerateAccessToken([userId |-> user.id,
                                                            email |-> user.email])>>]), db)]
  /\ UNCHANGED <<db, issued, seen, clock, requests>>

\* AuthController.updateProfile with an email, for the authenticated userId:
\* 409 when another user holds the email, else updateUser (UPDATE users SET
\* email = ?, updated_at = CURRENT_TIMESTAMP WHERE id = ?, email UNIQUE)
UpdateProfile(c, userId, email) ==
  /\ conn[c].pc = "idle"
  /\ IF \E u \in db.users : u.email = email /\ u.id # userId
     THEN /\ conn' = [conn EXCEPT ![c] =
               Done("updateProfile", [userId |-> userId, email |-> email], NoError,
                    Some([status |-> 409, error |-> "Email already taken", tokens |-> <<>>]), db)]
          /\ UNCHANGED db
     ELSE /\ db' = [db EXCEPT !.users =
                      {IF u.id = userId THEN [u EXCEPT !.email = email, !.updated_at = clock]
                       ELSE u : u \in @}]
          /\ conn' = [conn EXCEPT ![c] =
               Done("updateProfile", [userId |-> userId, email |-> email], NoError,
                    Some([status |-> 200, error |-> "", tokens |-> <<>>]), db)]
  /\ UNCHANGED <<issued, seen, clock, requests>>

\* getOrCreateIngredient, first statement: the SELECT by name
ResolveLookup(c, name) ==
  /\ conn[c].pc = "idle"
  /\ LET ingredient == SelectIngredientByName(db, name) IN
     conn' = [conn EXCEPT ![c] =
                IF ingredient = Absent
                THEN [pc |-> "insert", op |-> "getOrCreateIngredient",
                      arg |-> [name |-> name], loc |-> ingredient, err |-> NoError,
                      ret |-> Absent, pre |-> db]
                ELSE [Done("getOrCreateIngredient", [name |-> name], NoError,
                           Some(ingredient[1].id), db) EXCEPT !.loc = ingredient]]
  /\ UNCHANGED <<db, issued, seen, clock, requests>>

\* getOrCreateIngredient, second statement: the INSERT of the missing name
ResolveInsert(c) ==
  /\ conn[c].pc = "insert"
  /\ LET s == InsertIngredient(Begin(db), conn[c].arg.name) IN
     /\ db' = s.db
     /\ conn' = [conn EXCEPT ![c] =
                   Done("getOrCreateIngredient", conn[c].arg, s.err,
                        IF s.err = NoError THEN Some(s.ret) ELSE Absent, conn[c].pre)]
  /\ seen' = Observed(db')
  /\ UNCHANGED <<issued, clock, requests>>

\* getRecipeById, first statement: the recipe row, or null and return
ReadRecipe(c, id) ==
  /\ conn[c].pc = "idle"
  /\ LET recipe == SelectRecipe(db, id) IN
     conn' = [conn EXCEPT ![c] =
                IF recipe = Absent
                THEN Done("getRecipeById", [id |-> id], NoError, Absent, db)
                ELSE [pc |-> "cuisines", op |-> "getRecipeById", arg |-> [id |-> id],
                      loc |-> [recipe |-> recipe[1]], err |-> NoError, ret |-> Absent,
                      pre |-> db]]
  /\ seen' = [seen EXCEPT ![c] = {GetRecipeById(db, id)}]
  /\ UNCHANGED <<db, issued, clock, requests>>

\* getRecipeById, second statement: the cuisines of the recipe
ReadCuisines(c) ==
  /\ conn[c].pc = "cuisines"
  /\ conn' = [conn EXCEPT ![c].pc = "steps",
                          ![c].loc = [recipe |-> @.recipe,
                                      cuisines |-> SelectCuisinesOf(db, conn[c].arg.id)]]
  /\ UNCHANGED <<db, issued, seen, clock, requests>>

\* getRecipeById, third statement: the steps of the recipe
ReadSteps(c) ==
  /\ conn[c].pc = "steps"
  /\ conn' = [conn EXCEPT ![c].pc = "ingredients",
                          ![c].loc = [recipe |-> @.recipe, cuisines |-> @.cuisines,
                                      steps |-> SelectStepsOf(db, conn[c].arg.id)]]
  /\ UNCHANGED <<db, issued, seen, clock, requests>>

\* getRecipeById, fourth statement: the ingredients; the parts are attached
\* to the recipe row and returned
ReadIngredients(c) ==
  /\ conn[c].pc = "ingredients"
  /\ conn' = [conn EXCEPT ![c] =
                Done("getRecipeById", conn[c].arg, NoError,
                     Some([recipe |-> conn[c].loc.recipe,
                           cuisines |-> conn[c].loc.cuisines,
                           steps |-> conn[c].loc.steps,
                           ingredients |-> SelectIngredientsOf(db, conn[c].arg.id)]),
                     conn[c].pre)]
  /\ UNCHANGED <<db, issued, seen, clock, requests>>

\* getRecipes(filter)
GetRecipes(c, filter) ==
  /\ conn[c].pc = "idle"
  /\ LET res == GetRecipesDb(db, filter) IN
     conn' = [conn EXCEPT ![c] = Done("getRecipes", [filter |-> filter], res.err, res.ret, db)]
  /\ UNCHANGED <<db, issued, seen, clock, requests>>

\* getRecipesByCuisine(cuisineId, filter)
GetRecipesByCuisine(c, cuisineId, filter) ==
  /\ conn[c].pc = "idle"
  /\ LET res == GetRecipesByCuisineDb(db, cuisineId, filter) IN
     conn' = [conn EXCEPT ![c] =
                Done("getRecipesByCuisine", [cuisineId |-> cuisineId, filter |-> filter],
                     res.err, res.ret, db)]
  /\ UNCHANGED <<db, issued, seen, clock, requests>>

\* getRecipesGroupedByCuisine()
GetRecipesGroupedByCuisine(c) ==
  /\ conn[c].pc = "idle"
  /\ conn' = [conn EXCEPT ![c] =
                Done("getRecipesGroupedByCuisine", <<>>, NoError,
                     Some(GetRecipesGroupedByCuisineDb(db)), db)]
  /\ UNCHANGED <<db, issued, seen, clock, requests>>

\* getCuisines()
GetCuisines(c) ==
  /\ conn[c].pc = "idle"
  /\ conn' = [conn EXCEPT ![c] = Done("getCuisines", <<>>, NoError, Some(GetCuisinesDb(db)), db)]
  /\ UNCHANGED <<db, issued, seen, clock, requests>>

\* the server's connection: one request at a time, each method run to its end
Server == 1

\* a request reaches a method only while the connection runs nothing else
Request(c, cap, creates, updates) ==
  /\ conn[c].pc = "idle"
  /\ \/ \E email \in Emails : CreateUser(c, email)
     \/ \E name \in CuisineNames : CreateCuisine(c, name)
     \/ \E recipe \in creates : CreateRecipe(c, recipe, cap)
     \/ \E id \in 1..cap, recipeData \in updates, userId \in UserIdPool :
          UpdateRecipe(c, id, recipeData, userId)
     \/ \E id \in 1..cap : ArchiveRecipe(c, id)
  /\ Rows(db') <= MaxRows

\* Spec: one aggregate at a time, bodies with lists of up to MaxItems elements
Next ==
  \/ Request(Server, MaxRecipes, CreateBodies, UpdateBodies)
  \/ \E name \in IngredientNames : ResolveLookup(Server, name)
  \/ ResolveInsert(Server)
  \/ Respond(Server)

Spec == Init /\ [][Next]_vars

\* SpecPair: two aggregates side by side, bodies with at most PairItems elements
NextPair ==
  \/ Request(Server, PairRecipes, PairCreateBodies, PairUpdateBodies)
  \/ Respond(Server)

SpecPair == Init /\ [][NextPair]_vars

\* SpecRace: two connections resolve ingredient names, getOrCreateIngredient
\* statement by statement, createRecipe and updateRecipe as transactions
NextRace ==
  \/ \E c \in Conns : Request(c, RaceRecipes, RaceCreateBodies, RaceUpdateBodies)
  \/ \E c \in Conns, name \in IngredientNames : ResolveLookup(c, name)
  \/ \E c \in Conns : ResolveInsert(c)
  \/ \E c \in Conns : Respond(c)

SpecRace == Init /\ [][NextRace]_vars

\* a second RecipeDatabase instance on the same recipes.db
Peer == 2

\* SpecRead: the server runs getRecipeById statement by statement while the
\* other connection commits writes to the same recipe
NextRead ==
  \/ Request(Peer, RaceRecipes, ReadCreateBodies, ReadUpdateBodies)
  \/ \E id \in 1..RaceRecipes : ReadRecipe(Server, id)
  \/ ReadCuisines(Server)
  \/ ReadSteps(Server)
  \/ ReadIngredients(Server)
  \/ \E c \in Conns : Respond(c)

SpecRead == Init /\ [][NextRead]_vars

\* a second passes between two requests
Tick ==
  /\ \A c \in Conns : conn[c].pc = "idle"
  /\ clock < MaxClock
  /\ clock' = clock + 1
  /\ UNCHANGED <<db, issued, conn, seen, requests>>

\* SpecStamp: one recipe created and updated while the clock advances
NextStamp ==
  \/ Request(Server, RaceRecipes, PairCreateBodies, PairUpdateBodies)
  \/ Tick
  \/ Respond(Server)

SpecStamp == Init /\ [][NextStamp]_vars

\* SpecList starts with two users and two cuisines stored
ListDb ==
  [EmptyDb EXCEPT
     !.users = {[id |-> 1, email |-> "chef@demo.com"], [id |-> 2, email |-> "cook@demo.com"]},
     !.cuisines = {[id |-> 1, name |-> "Italian"], [id |-> 2, name |-> "Mexican"]}]

InitList ==
  /\ db = ListDb
  /\ issued = 0
  /\ conn = [c \in Conns |-> Idle]
  /\ seen = [c \in Conns |-> {}]
  /\ clock = 0
  /\ requests = {}

\* SpecList: recipes are created while the clock advances, and the list
\* queries run between the writes
NextList ==
  \/ \E recipe \in ListCreateBodies : CreateRecipe(Server, recipe, ListRecipes)
  \/ Tick
  \/ \E filter \in ListFilters : GetRecipes(Server, filter)
  \/ \E cuisineId \in CuisineIdPool :
       \E filter \in {f \in ListFilters : Cardinality(Supplied(f)) < MaxFilterFields} :
         GetRecipesByCuisine(Server, cuisineId, filter)
  \/ GetRecipesGroupedByCuisine(Server)
  \/ GetCuisines(Server)
  \/ Respond(Server)

SpecList == InitList /\ [][NextList]_vars

\* SpecIntegrity: the operations of SpecPair, and deleteCuisine
NextIntegrity ==
  \/ Request(Server, PairRecipes, PairCreateBodies, PairUpdateBodies)
  \/ \E id \in CuisineIdPool : DeleteCuisine(Server, id)
  \/ Respond(Server)

SpecIntegrity == Init /\ [][NextIntegrity]_vars

\* SpecApi: users, cuisines and recipes are stored through the database
\* methods, and recipes are posted through the controller
NextApi ==
  \/ Request(Server, RaceRecipes, PairCreateBodies, PairUpdateBodies)
  \/ \E body \in PairCreateBodies : PostRecipe(Server, body, RaceRecipes)
  \/ Respond(Server)

SpecApi == Init /\ [][NextApi]_vars

\* recipes.db before db.ts has created its table
NoTables == <<>>

\* db.ts, new RecipeDatabase(): init() runs CREATE TABLE IF NOT EXISTS recipes;
\* the statement succeeds or fails (file locked, not a database, not writable),
\* and the promise goes to .then(log) / .catch(console.error)
DbTsInit(c) ==
  /\ conn[c].pc = "boot"
  /\ \E created \in BOOLEAN :
       /\ db' = IF created /\ db = NoTables THEN [recipes |-> {}] ELSE db
       /\ conn' = [conn EXCEPT ![c] =
                     Done("init", <<>>, IF created THEN NoError ELSE SqliteError, Absent, db)]
  /\ UNCHANGED <<issued, seen, clock, requests>>

\* index.ts POST /recipe/create: db.createRecipe(body), INSERT INTO recipes
DbTsCreateRecipe(c, name, description) ==
  /\ conn[c].pc = "idle"
  /\ issued < BootRecipes
  /\ IF db = NoTables
     THEN /\ conn' = [conn EXCEPT ![c] =
                        Done("POST /recipe/create", [name |-> name], SqliteError, Absent, db)]
          /\ UNCHANGED <<db, issued, requests>>
     ELSE /\ db' = [db EXCEPT !.recipes = @ \cup {[id |-> issued + 1, name |-> name,
                                                   description |-> description]}]
          /\ issued' = issued + 1
          /\ conn' = [conn EXCEPT ![c] =
                        Done("POST /recipe/create", [name |-> name], NoError, Absent, db)]
  /\ UNCHANGED <<seen, clock, requests>>

\* index.ts GET /recipe/list: db.getRecipes(), SELECT * FROM recipes
DbTsGetRecipes(c) ==
  /\ conn[c].pc = "idle"
  /\ conn' = [conn EXCEPT ![c] =
                IF db = NoTables
                THEN Done("GET /recipe/list", <<>>, SqliteError, Absent, db)
                ELSE Done("GET /recipe/list", <<>>, NoError, Some(db.recipes), db)]
  /\ UNCHANGED <<db, issued, seen, clock, requests>>

\* SpecBoot: the process of index.ts starts on a new recipes.db, constructs
\* the database of db.ts, listens, and serves its recipe routes
InitBoot ==
  /\ db = NoTables
  /\ issued = 0
  /\ conn = [c \in Conns |-> IF c = Server THEN [Idle EXCEPT !.pc = "boot"] ELSE Idle]
  /\ seen = [c \in Conns |-> {}]
  /\ clock = 0
  /\ requests = {}

NextBoot ==
  \/ DbTsInit(Server)
  \/ \E name \in RecipeNames, description \in Descriptions :
       DbTsCreateRecipe(Server, name, description)
  \/ DbTsGetRecipes(Server)
  \/ Respond(Server)

SpecBoot == InitBoot /\ [][NextBoot]_vars

\* SpecAuth: two requests in flight in the one process register, log in,
\* refresh and change profile emails; register yields at its await
AuthEmails == {"chef@demo.com", "cook@demo.com"}
NextAuth ==
  \/ \E c \in Conns, email \in AuthEmails, password \in DOMAIN PasswordService.hash :
       RegisterCheck(c, email, password)
  \/ \E c \in Conns : RegisterInsert(c)
  \/ \E email \in AuthEmails, password \in DOMAIN PasswordService.hash : Login(Server, email, password)
  \/ \E userId \in 1..AuthUsers, email \in AuthEmails :
       \E token \in {GenerateRefreshToken([userId |-> userId]),
                      GenerateAccessToken([userId |-> userId, email |-> email]),
                      [GenerateRefreshToken([userId |-> userId]) EXCEPT !.key = "forged"]} :
         RefreshToken(Server, token)
  \/ \E userId \in 1..AuthUsers, email \in AuthEmails : UpdateProfile(Server, userId, email)
  \/ Tick
  \/ \E c \in Conns : Respond(c)

SpecAuth == Init /\ [][NextAuth]_vars

\* SpecById: the server creates and archives recipes and reads them by id,
\* each call run to its end before the next
NextById ==
  \/ \E recipe \in ByIdCreateBodies : CreateRecipe(Server, recipe, ByIdRecipes)
  \/ \E id \in 1..ByIdRecipes : ArchiveRecipe(Server, id)
  \/ \E id \in 1..ByIdRecipes : ReadRecipe(Server, id)
  \/ ReadCuisines(Server)
  \/ ReadSteps(Server)
  \/ ReadIngredients(Server)
  \/ Respond(Server)

SpecById == InitList /\ [][NextById]_vars

\* ------------------------------------------------------------------ claims
\* the call the server's connection has finished, and how it ended
Finished(op) == conn[Server].pc = "done" /\ conn[Server].op = op
Failed(op) == Finished(op) /\ conn[Server].err # NoError
Succeeded(op) == Finished(op) /\ conn[Server].err = NoError

\* what getRecipeById returned, reduced to the fields a request body carries
CuisineIdsOf(agg) == {c.id : c \in DOMAIN agg.cuisines}
IngredientTriplesOf(agg) ==
  {[name |-> r.ingredient_name, quantity |-> r.quantity, unit |-> r.unit] :
     r \in DOMAIN agg.ingredients}
StepPairsOf(agg) ==
  {[step_number |-> r.step_number, instruction |-> r.instruction] : r \in Range(agg.steps)}

NoRowsOf(d, id) ==
  /\ id \notin Ids(d.recipes)
  /\ RowsOf(d.recipe_cuisines, id) = {}
  /\ RowsOf(d.recipe_steps, id) = {}
  /\ RowsOf(d.recipe_ingredients, id) = {}

\* C1: a createRecipe that throws leaves no recipes, recipe_steps,
\* recipe_cuisines or recipe_ingredients row of the new id, and the tables,
\* the ingredients catalog among them, hold exactly what they held before.
C1_CreateAllOrNothing ==
  Failed("createRecipe") =>
    /\ NoRowsOf(db, conn[Server].arg.id)
    /\ db.ingredients = conn[Server].pre.ingredients
    /\ db = conn[Server].pre

\* a createRecipe that inserted a new catalog row and the recipe row, then
\* failed on the second association of the same ingredient
C1_Witness ==
  /\ Failed("createRecipe")
  /\ conn[Server].err = UNIQUE
  /\ Len(conn[Server].arg.body.ingredients) = 2
  /\ SelectIngredientByName(conn[Server].pre,
                            conn[Server].arg.body.ingredients[1].name) = Absent

\* C2: an updateRecipe that throws leaves the recipe row, its steps, cuisine
\* and ingredient associations and the ingredients catalog as they were.
C2_UpdateAllOrNothing ==
  Failed("updateRecipe") =>
    /\ GetRecipeById(db, conn[Server].arg.id) =
         GetRecipeById(conn[Server].pre, conn[Server].arg.id)
    /\ db.ingredients = conn[Server].pre.ingredients
    /\ db = conn[Server].pre

\* an update of a stored recipe that deleted its old steps, resolved a new
\* ingredient name and then hit a uniqueness violation
C2_Witness ==
  /\ Failed("updateRecipe")
  /\ conn[Server].err = UNIQUE
  /\ conn[Server].arg.id \in Ids(conn[Server].pre.recipes)
  /\ RowsOf(conn[Server].pre.recipe_steps, conn[Server].arg.id) # {}
  /\ conn[Server].arg.body.steps = Some(<<>>)
  /\ OptLen(conn[Server].arg.body.ingredients) = 2
  /\ SelectIngredientByName(conn[Server].pre,
                            conn[Server].arg.body.ingredients[1][1].name) = Absent

\* C3: after a successful updateRecipe of a stored recipe, getRecipeById
\* returns, for every sub-collection the body supplies, exactly the supplied
\* elements (none of the old ones, the empty list included).
C3_WholesaleReplace ==
  (Succeeded("updateRecipe") /\ conn[Server].arg.id \in Ids(conn[Server].pre.recipes)) =>
    LET body == conn[Server].arg.body
        got == GetRecipeById(db, conn[Server].arg.id)
    IN /\ got # Absent
       /\ body.cuisines # Absent =>
            /\ CuisineIdsOf(got[1]) = Range(body.cuisines[1])
            /\ BagCardinality(got[1].cuisines) = Len(body.cuisines[1])
       /\ body.steps # Absent =>
            /\ StepPairsOf(got[1]) = Range(body.steps[1])
            /\ Len(got[1].steps) = Len(body.steps[1])
       /\ body.ingredients # Absent =>
            /\ IngredientTriplesOf(got[1]) = Range(body.ingredients[1])
            /\ BagCardinality(got[1].ingredients) = Len(body.ingredients[1])

\* a successful update that replaces two stored steps by one of them
C3_Witness ==
  /\ Succeeded("updateRecipe")
  /\ Cardinality(RowsOf(conn[Server].pre.recipe_steps, conn[Server].arg.id)) = 2
  /\ OptLen(conn[Server].arg.body.steps) = 1
  /\ conn[Server].arg.body.steps # Absent

\* C4: after a successful createRecipe, getRecipeById of the new id returns the
\* supplied name and description, exactly the supplied cuisines, one
\* ingredient entry per supplied triple and the supplied steps as numbered.
C4_CreateReadRoundTrip ==
  Succeeded("createRecipe") =>
    LET body == conn[Server].arg.body
        got == GetRecipeById(db, conn[Server].arg.id)
    IN /\ got # Absent
       /\ got[1].recipe.name = body.name
       /\ got[1].recipe.description = body.description
       /\ CuisineIdsOf(got[1]) = Range(body.cuisines)
       /\ BagCardinality(got[1].cuisines) = Len(body.cuisines)
       /\ IngredientTriplesOf(got[1]) = Range(body.ingredients)
       /\ BagCardinality(got[1].ingredients) = Len(body.ingredients)
       /\ StepPairsOf(got[1]) = Range(body.steps)
       /\ Len(got[1].steps) = Len(body.steps)

\* a created recipe whose only step is numbered 3, with one ingredient
C4_Witness ==
  /\ Succeeded("createRecipe")
  /\ Len(conn[Server].arg.body.steps) = 1
  /\ conn[Server].arg.body.steps[1].step_number = 3
  /\ Len(conn[Server].arg.body.ingredients) = 1

\* C6: no two ingredients rows share a name; a call leaves every catalog row
\* in place and adds a row only for a name the catalog lacked; resolving a
\* stored name (getOrCreateIngredient, createRecipe, updateRecipe) yields the
\* stored identifier.
C6_IdempotentCatalog ==
  /\ \A i, j \in db.ingredients : i.name = j.name => i = j
  /\ conn[Server].pc = "done" =>
       LET pre == conn[Server].pre
           arg == conn[Server].arg
           stored(name) == SelectIngredientByName(pre, name)
           supplied == IF conn[Server].op = "createRecipe" THEN Range(arg.body.ingredients)
                       ELSE IF conn[Server].op = "updateRecipe"
                               /\ arg.body.ingredients # Absent
                       THEN Range(arg.body.ingredients[1])
                       ELSE {}
       IN /\ pre.ingredients \subseteq db.ingredients
          /\ \A i \in db.ingredients \ pre.ingredients :
               \A j \in pre.ingredients : j.name # i.name
          /\ (conn[Server].op = "getOrCreateIngredient" /\ stored(arg.name) # Absent) =>
               /\ conn[Server].err = NoError
               /\ conn[Server].ret = Some(stored(arg.name)[1].id)
               /\ db.ingredients = pre.ingredients
          /\ (conn[Server].err = NoError /\ supplied # {}
                /\ arg.id \in Ids(db.recipes)) =>
               \A x \in supplied :
                 stored(x.name) # Absent =>
                   \E r \in RowsOf(db.recipe_ingredients, arg.id) :
                     /\ r.ingredient_id = stored(x.name)[1].id
                     /\ r.quantity = x.quantity

\* the update of Pasta from 400 to 500: one catalog row, one association row
C6_Witness ==
  /\ Succeeded("updateRecipe")
  /\ conn[Server].arg.body.ingredients =
       Some(<<[name |-> "Pasta", quantity |-> 500, unit |-> "grams"]>>)
  /\ \E r \in RowsOf(conn[Server].pre.recipe_ingredients, conn[Server].arg.id) :
       r.quantity = 400
  /\ Cardinality({i \in db.ingredients : i.name = "Pasta"}) = 1
  /\ BagCardinality(db.recipe_ingredients) = 1

\* C9 as claimed: an updateRecipe whose id matches no recipes row fails with a
\* not-found error and changes no table.
C9_UpdateMissingIsNotFound ==
  (Finished("updateRecipe") /\ conn[Server].arg.id \notin Ids(conn[Server].pre.recipes)) =>
    /\ conn[Server].err = "NotFoundError"
    /\ db = conn[Server].pre

\* the rows of recipe `id` in the four recipe tables
RecipeRows(d, id) ==
  [recipe |-> {r \in d.recipes : r.id = id},
   cuisines |-> [r \in RowsOf(d.recipe_cuisines, id) |-> d.recipe_cuisines[r]],
   steps |-> [r \in RowsOf(d.recipe_steps, id) |-> d.recipe_steps[r]],
   ingredients |-> [r \in RowsOf(d.recipe_ingredients, id) |-> d.recipe_ingredients[r]]]

OtherRecipesKept(pre, d, id) ==
  \A other \in (Ids(pre.recipes) \cup Ids(d.recipes)) \ {id} :
    RecipeRows(d, other) = RecipeRows(pre, other)

C10_UpdateFrame ==
  (Succeeded("updateRecipe") /\ conn[Server].arg.id \in Ids(conn[Server].pre.recipes)) =>
    LET id == conn[Server].arg.id
        body == conn[Server].arg.body
        old == RecipeRows(conn[Server].pre, id)
        new == RecipeRows(db, id)
    IN /\ \E o \in old.recipe : \E n \in new.recipe :
            /\ body.name = Absent => n.name = o.name
            /\ body.description = Absent => n.description = o.description
       /\ body.cuisines = Absent => new.cuisines = old.cuisines
       /\ body.steps = Absent => new.steps = old.steps
       /\ body.ingredients = Absent => new.ingredients = old.ingredients
       /\ OtherRecipesKept(conn[Server].pre, db, id)

\* an update that replaces the cuisines of one recipe while another recipe
\* holds a cuisine row and the updated one keeps a step or ingredient row
C10_Witness ==
  /\ Succeeded("updateRecipe")
  /\ conn[Server].arg.id \in Ids(conn[Server].pre.recipes)
  /\ conn[Server].arg.body.cuisines # Absent
  /\ conn[Server].arg.body.name = Absent
  /\ \E other \in Ids(db.recipes) \ {conn[Server].arg.id} :
       RowsOf(db.recipe_cuisines, other) # {}
  /\ RowsOf(db.recipe_steps, conn[Server].arg.id)
       \cup RowsOf(db.recipe_ingredients, conn[Server].arg.id) # {}

\* C7 as claimed: every resolution of an ingredient name, by
\* getOrCreateIngredient or inside createRecipe or updateRecipe, absorbs a
\* lost insert race: it surfaces no uniqueness error, and
\* getOrCreateIngredient returns the identifier the catalog holds for the name.
C7_RaceAbsorbed ==
  \A c \in Conns :
    (conn[c].pc = "done"
       /\ conn[c].op \in {"getOrCreateIngredient", "createRecipe", "updateRecipe"}) =>
      /\ conn[c].err # UNIQUE
      /\ conn[c].op = "getOrCreateIngredient" =>
           /\ SelectIngredientByName(db, conn[c].arg.name) # Absent
           /\ conn[c].ret = Some(SelectIngredientByName(db, conn[c].arg.name)[1].id)

\* C8 as claimed: what getRecipeById returns is the aggregate the tables held
\* at its first SELECT or after one of the commits made while it ran.
C8_ReadIsOneCommittedState ==
  \A c \in Conns :
    (conn[c].pc = "done" /\ conn[c].op = "getRecipeById") => conn[c].ret \in seen[c]

\* C11 as claimed: a successful updateRecipe of a stored recipe that supplies a
\* name or a description (the empty description included) leaves the stored
\* field equal to the supplied value.
C11_SuppliedScalarsStored ==
  (Succeeded("updateRecipe") /\ conn[Server].arg.id \in Ids(conn[Server].pre.recipes)) =>
    \A r \in db.recipes :
      r.id = conn[Server].arg.id =>
        /\ conn[Server].arg.body.name # Absent => r.name = conn[Server].arg.body.name[1]
        /\ conn[Server].arg.body.description # Absent =>
             r.description = conn[Server].arg.body.description[1]

\* C12 as claimed: after a successful updateRecipe(id, fields, editor) that
\* changes the recipe (its name, description, cuisines, steps or ingredients)
\* the recipe's updated_by is editor and its updated_at is the time of the call.
C12_ModificationStamp ==
  (/\ Succeeded("updateRecipe")
   /\ conn[Server].arg.id \in Ids(conn[Server].pre.recipes)
   /\ RecipeRows(db, conn[Server].arg.id) # RecipeRows(conn[Server].pre, conn[Server].arg.id)) =>
    \A r \in db.recipes :
      r.id = conn[Server].arg.id =>
        /\ r.updated_by = conn[Server].arg.userId
        /\ r.updated_at = clock

\* ---------------------------------------------------------------- list claims
\* what a finished list call was asked and what it returned
Asked == conn[Server].arg.filter
Returned == conn[Server].ret[1]
PageOf(filter) == OrDefault(filter.page, 1)
LimitOf(filter) == OrDefault(filter.limit, DefaultLimit)
RecipeIdsIn(rows) == {rows[i].recipe.id : i \in DOMAIN rows}
Matching(d, filter) == {r \in d.recipes : Where(d, filter, r)}
OtherPage(filter, p) == GetRecipesDb(db, [filter EXCEPT !.page = Some(p)]).ret[1]

C14_FilterSemantics ==
  Succeeded("getRecipes") =>
    LET Occurs(text, column) ==
          \E k \in 0..(Len(Chars(column)) - Len(Chars(text))) :
            \A i \in 1..Len(Chars(text)) :
              Lower(Chars(text)[i]) = Lower(Chars(column)[k + i])
        CuisinesOf(r) == {rc.cuisine_id : rc \in RowsOf(db.recipe_cuisines, r.id)}
        IngredientNamesOf(r) ==
          {i.name : i \in {x \in db.ingredients :
             \E ri \in RowsOf(db.recipe_ingredients, r.id) : ri.ingredient_id = x.id}}
        Satisfies(r) ==
          /\ Asked.author_id # Absent => r.author_id = Asked.author_id[1]
          /\ Asked.cuisines # Absent => CuisinesOf(r) \cap Range(Asked.cuisines[1]) # {}
          /\ Asked.search # Absent =>
               \/ Occurs(Asked.search[1], r.name)
               \/ Occurs(Asked.search[1], r.description)
               \/ \E n \in IngredientNamesOf(r) : Occurs(Asked.search[1], n)
        selected == {r \in db.recipes : Satisfies(r)}
    IN /\ Returned.total = Cardinality(selected)
       /\ RecipeIdsIn(Returned.recipes) \subseteq Ids(selected)
       /\ (PageOf(Asked) = 1 /\ LimitOf(Asked) >= Cardinality(selected)) =>
            RecipeIdsIn(Returned.recipes) = Ids(selected)
       /\ \A i, j \in DOMAIN Returned.recipes :
            Returned.recipes[i].recipe.id = Returned.recipes[j].recipe.id => i = j
       /\ \A i \in DOMAIN Returned.recipes :
            Returned.recipes[i].cuisine_names =
              {c.name : c \in {x \in db.cuisines : x.id \in CuisinesOf(Returned.recipes[i].recipe)}}

\* C15: a getRecipes call with any of the sort keys name, created_at,
\* updated_at, author and any direction returns, and its rows are ordered by
\* that key in that direction (created_at descending when none is given)
C15_SortKeys ==
  Finished("getRecipes") =>
    /\ conn[Server].err = NoError
    /\ LET sortBy == OrDefault(Asked.sortBy, "created_at")
           sortOrder == OrDefault(Asked.sortOrder, "desc")
           key(i) == SortKey(Returned.recipes[i].recipe, sortBy)
       IN sortBy \in SortColumns =>
            \A i, j \in DOMAIN Returned.recipes :
              i < j => IF sortOrder = "asc" THEN key(i) <= key(j) ELSE key(i) >= key(j)

\* C17: getRecipesByCuisine(c, f) ends as getRecipes(f with cuisines forced to
\* <<c>>) ends; when it returns, its rows are that call's recipes in the same
\* order, also when f carries its own cuisines, and each row's recipe is
\* associated with c
C17_ByCuisineEquivalence ==
  Finished("getRecipesByCuisine") =>
    LET c == conn[Server].arg.cuisineId
        list == GetRecipesDb(db, [Asked EXCEPT !.cuisines = Some(<<c>>)])
    IN /\ conn[Server].err = list.err
       /\ conn[Server].err = NoError =>
            /\ Returned = list.ret[1].recipes
            /\ \A i \in DOMAIN Returned :
                 \E rc \in RowsOf(db.recipe_cuisines, Returned[i].recipe.id) : rc.cuisine_id = c

\* a by-cuisine call for a cuisine that the filter's own cuisines leave out
\* returns a recipe
C17_Witness ==
  /\ Succeeded("getRecipesByCuisine")
  /\ Asked.cuisines # Absent
  /\ conn[Server].arg.cuisineId \notin Range(Asked.cuisines[1])
  /\ Len(Returned) > 0

\* C18: getRecipesGroupedByCuisine returns one entry for each cuisine with an
\* associated recipe and none for a cuisine without; an entry's recipe_count is
\* the number of recipes associated with the cuisine and the length of its
\* recipes list, which holds every such recipe; getCuisines returns every
\* cuisine, those without recipes included
C18_GroupedView ==
  /\ Succeeded("getRecipesGroupedByCuisine") =>
       LET groups == conn[Server].ret[1]
           RecipesOf(c) == {r \in db.recipes :
                             \E rc \in RowsOf(db.recipe_cuisines, r.id) : rc.cuisine_id = c.id}
       IN /\ \A i \in DOMAIN groups : groups[i].cuisine_id \in Ids(db.cuisines)
          /\ \A c \in db.cuisines :
               LET entries == {i \in DOMAIN groups : groups[i].cuisine_id = c.id}
               IN /\ Cardinality(entries) = IF RecipesOf(c) = {} THEN 0 ELSE 1
                  /\ \A i \in entries :
                       /\ groups[i].cuisine_name = c.name
                       /\ groups[i].recipe_count = Cardinality(RecipesOf(c))
                       /\ groups[i].recipe_count = BagCardinality(groups[i].recipes)
                       /\ BagToSet(groups[i].recipes) =
                            {[id |-> r.id, name |-> r.name, description |-> r.description] :
                               r \in RecipesOf(c)}
  /\ Succeeded("getCuisines") => Range(conn[Server].ret[1]) = db.cuisines

\* the grouped view of two recipes that both have the first of two cuisines
\* and one of which also has the second
C18_Witness ==
  /\ Succeeded("getRecipesGroupedByCuisine")
  /\ Len(conn[Server].ret[1]) = 2
  /\ conn[Server].ret[1][1].recipe_count = 2
  /\ conn[Server].ret[1][2].recipe_count = 1

\* ---------------------------------------------------------------- by-id claim
\* C16: getRecipeById(id), run without another call in between, returns null
\* exactly when no recipes row has the id; otherwise it returns that row with
\* the cuisines associated with the recipe, its ingredient rows each with the
\* ingredient's name, and its steps in ascending step_number, nothing left out
\* and nothing of another recipe
C16_ByIdAggregate ==
  Finished("getRecipeById") =>
    LET id == conn[Server].arg.id
        out == conn[Server].ret
    IN /\ (out = Absent) = (id \notin Ids(db.recipes))
       /\ out # Absent =>
            /\ out[1].recipe \in db.recipes /\ out[1].recipe.id = id
            /\ DOMAIN out[1].cuisines =
                 {c \in db.cuisines :
                    \E rc \in RowsOf(db.recipe_cuisines, id) : rc.cuisine_id = c.id}
            /\ BagCardinality(out[1].cuisines) = Cardinality(RowsOf(db.recipe_cuisines, id))
            /\ Range(out[1].steps) = RowsOf(db.recipe_steps, id)
            /\ Len(out[1].steps) = Cardinality(RowsOf(db.recipe_steps, id))
            /\ \A i, j \in DOMAIN out[1].steps :
                 i < j => out[1].steps[i].step_number <= out[1].steps[j].step_number
            /\ {[recipe_id |-> x.recipe_id, ingredient_id |-> x.ingredient_id,
                  quantity |-> x.quantity, unit |-> x.unit] : x \in DOMAIN out[1].ingredients}
                 = RowsOf(db.recipe_ingredients, id)
            /\ BagCardinality(out[1].ingredients) = Cardinality(RowsOf(db.recipe_ingredients, id))
            /\ \A x \in DOMAIN out[1].ingredients :
                 \E i \in db.ingredients : i.id = x.ingredient_id /\ i.name = x.ingredient_name

\* a recipe with two steps read back while another recipe with steps is stored
C16_Witness ==
  /\ Succeeded("getRecipeById")
  /\ conn[Server].ret # Absent
  /\ Len(conn[Server].ret[1].steps) = 2
  /\ \E r \in BagToSet(db.recipe_steps) : r.recipe_id # conn[Server].arg.id

\* ------------------------------------------------------------ integrity claims
\* C19: no recipe ever has two steps with one step_number, two rows for one
\* ingredient or two rows for one cuisine, and a createRecipe or updateRecipe
\* whose lists name a step number, an ingredient or a cuisine twice fails
C19_SubCollectionUnique ==
  /\ \A a \in BagToSet(db.recipe_steps) :
       /\ db.recipe_steps[a] = 1
       /\ \A b \in BagToSet(db.recipe_steps) :
            (a.recipe_id = b.recipe_id /\ a.step_number = b.step_number) => a = b
  /\ \A a \in BagToSet(db.recipe_ingredients) :
       /\ db.recipe_ingredients[a] = 1
       /\ \A b \in BagToSet(db.recipe_ingredients) :
            (a.recipe_id = b.recipe_id /\ a.ingredient_id = b.ingredient_id) => a = b
  /\ \A a \in BagToSet(db.recipe_cuisines) : db.recipe_cuisines[a] = 1
  /\ (Finished("createRecipe") \/ Finished("updateRecipe")) =>
       LET body == conn[Server].arg.body
           list(o) == IF Finished("createRecipe") THEN o
                      ELSE IF o = Absent THEN <<>> ELSE o[1]
           Twice(seq) == \E i, j \in DOMAIN seq : i < j /\ seq[i] = seq[j]
           steps == list(body.steps)
           ingredients == list(body.ingredients)
       IN (\/ Twice(list(body.cuisines))
           \/ Twice([i \in DOMAIN steps |-> steps[i].step_number])
           \/ Twice([i \in DOMAIN ingredients |-> ingredients[i].name]))
            => conn[Server].err # NoError

\* an updateRecipe of a stored recipe that names one step number twice fails
\* on the UNIQUE constraint
C19_Witness ==
  /\ Failed("updateRecipe")
  /\ conn[Server].err = UNIQUE
  /\ conn[Server].arg.id \in Ids(conn[Server].pre.recipes)
  /\ conn[Server].arg.body.steps # Absent
  /\ Len(conn[Server].arg.body.steps[1]) = 2
  /\ conn[Server].arg.body.steps[1][1].step_number = conn[Server].arg.body.steps[1][2].step_number

\* C20: in every state every recipes row's author_id, created_by and
\* updated_by name a users row, every recipe_steps row names a recipes row,
\* every recipe_cuisines row a recipes row and a cuisines row, and every
\* recipe_ingredients row a recipes row and an ingredients row
C20_ReferentialIntegrity ==
  /\ \A r \in db.recipes : {r.author_id, r.created_by, r.updated_by} \subseteq Ids(db.users)
  /\ \A x \in BagToSet(db.recipe_steps) : x.recipe_id \in Ids(db.recipes)
  /\ \A x \in BagToSet(db.recipe_cuisines) :
       x.recipe_id \in Ids(db.recipes) /\ x.cuisine_id \in Ids(db.cuisines)
  /\ \A x \in BagToSet(db.recipe_ingredients) :
       x.recipe_id \in Ids(db.recipes) /\ x.ingredient_id \in Ids(db.ingredients)

\* deleteCuisine of a cuisine a stored recipe is associated with has ended
C20_Witness ==
  /\ Finished("deleteCuisine")
  /\ \E rc \in BagToSet(conn[Server].pre.recipe_cuisines) : rc.cuisine_id = conn[Server].arg.id

\* ----------------------------------------------------------------- API claims
\* C21 as claimed: a POST /recipes whose body satisfies createRecipeSchema and
\* whose cuisine ids all exist is answered 201 with the new id, and
\* getRecipeById of that id then returns the recipe
C21_PostCreatesRecipe ==
  (/\ Finished("POST /recipes")
   /\ Range(conn[Server].arg.body.cuisines) \subseteq Ids(conn[Server].pre.cuisines)) =>
    /\ conn[Server].ret[1].status = 201
    /\ GetRecipeById(db, conn[Server].ret[1].id) # Absent
    /\ GetRecipeById(db, conn[Server].ret[1].id)[1].recipe.name = conn[Server].arg.body.name

\* C22 as claimed: no recipe operation runs before the schema is initialized,
\* and after a failed initialization the process serves no request: every
\* request that has run found the tables created
C22_NoTrafficUnready ==
  (conn[Server].pc = "done" /\ conn[Server].op # "init") => conn[Server].pre # NoTables

\* ---------------------------------------------------------------- auth claims
\* C23: no two users rows share an email, whatever the interleaving of
\* register and updateProfile requests; a createUser for an email some user
\* holds fails and leaves the users table as it was
C23_EmailUnique ==
  /\ [](\A u, v \in db.users : u.email = v.email => u = v)
  /\ [][\A c \in Conns :
          (/\ conn[c].pc = "hash" /\ conn'[c].pc = "done"
           /\ \E u \in db.users : u.email = conn[c].arg.email) =>
            (conn'[c].err = UNIQUE /\ db' = db)]_vars

\* a register whose email was taken, by the other register or by an
\* updateProfile, between its existence check and its insert
C23_Witness ==
  /\ conn[Peer].pc = "done" /\ conn[Peer].op = "register"
  /\ conn[Peer].err = UNIQUE
  /\ Cardinality(db.users) = 2

\* C26 as claimed: POST /auth/refresh issues an access token exactly when the
\* presented token was issued by generateRefreshToken for a user that exists,
\* and verifyAccessToken accepts no token issued by generateRefreshToken
C26_RefreshOnlyRefreshTokens ==
  Finished("refresh") =>
    /\ (conn[Server].ret[1].status = 200) =
         (\E u \in conn[Server].pre.users :
            conn[Server].arg.refreshToken = GenerateRefreshToken([userId |-> u.id]))
    /\ (\E userId \in 1..AuthUsers :
          conn[Server].arg.refreshToken = GenerateRefreshToken([userId |-> userId])) =>
         VerifyAccessToken(conn[Server].arg.refreshToken) = Absent

\* C27 as claimed: a register with an acceptable password for an email that a
\* user holds when the request checks (or, past the check, when it inserts) is
\* answered 409 'User with this email already exists' and issues no tokens
C27_DuplicateRegisterConflict ==
  \A c \in Conns :
    (/\ conn[c].pc = "done" /\ conn[c].op = "register"
     /\ PasswordService.validatePassword[conn[c].arg.password]
     /\ \E u \in conn[c].pre.users : u.email = conn[c].arg.email) =>
      /\ conn[c].ret[1].status = 409
      /\ conn[c].ret[1].error = "User with this email already exists"
      /\ conn[c].ret[1].tokens = <<>>

\* C28: a login with an email no user holds and a login with a held email but
\* another password get the same answer, 401 with one body and no token, and
\* leave the users table as it was; tokens go out only when the password
\* matches the stored hash of the user with the email
C28_LoginHidesAccounts ==
  /\ [](Finished("login") =>
         LET matches == \E u \in conn[Server].pre.users :
                          /\ u.email = conn[Server].arg.email
                          /\ u.password_hash = PasswordService.hash[conn[Server].arg.password]
         IN /\ ~matches => conn[Server].ret[1] =
                  [status |-> 401, error |-> "Invalid email or password", tokens |-> <<>>]
            /\ conn[Server].ret[1].tokens # <<>> => matches)
  /\ [][(conn[Server].pc = "idle" /\ conn'[Server].pc = "done" /\ conn'[Server].op = "login"
          /\ conn'[Server].ret[1].status = 401) => db' = db]_vars

\* a refused login for an email a user holds, and one for an email nobody holds
\* while a user is registered
C28_Witness ==
  /\ Finished("login")
  /\ conn[Server].ret[1].status = 401
  /\ conn[Server].pre.users # {}
  /\ \A u \in conn[Server].pre.users : u.email # conn[Server].arg.email


\* ---------------------------------------------------------------------------
\* rate limiter (middleware)
\* ---------------------------------------------------------------------------

maxRequests == 100
windowMs == 900000  \* 15 * 60 * 1000, in milliseconds

\* how many requests the client without address headers makes in one window
OtherRequests == 2

\* Date.now() when CURRENT_TIMESTAMP reads t
DateNow(t) == t * 1000

\* the limiter that counts a request before it looks at the limit
RateLimiterCountsRejected(c, forwarded, real, now) ==
  /\ conn[c].pc = "idle"
  /\ now >= clock
  /\ clock' = now
  /\ LET ip == IF TruthyStr(forwarded) THEN forwarded[1]
               ELSE IF TruthyStr(real) THEN real[1] ELSE "unknown"
         found == {e \in requests : e.ip = ip}
         userRequests == CHOOSE e \in found : TRUE
         call(err) == [Done("rateLimiter", [forwarded |-> forwarded, real |-> real, ip |-> ip,
                                               now |-> DateNow(now)], err, Absent, db)
                         EXCEPT !.loc = requests]
     IN IF found = {} \/ DateNow(now) > userRequests.resetTime
        THEN /\ requests' = (requests \ found) \cup
                   {[ip |-> ip, count |-> 1, resetTime |-> DateNow(now) + windowMs]}
             /\ conn' = [conn EXCEPT ![c] = call(NoError)]
        ELSE /\ requests' = (requests \ found) \cup
                   {[userRequests EXCEPT !.count = @ + 1]}
             /\ conn' = [conn EXCEPT ![c] =
                   call(IF userRequests.count >= maxRequests
                        THEN "429 Too many requests" ELSE NoError)]
  /\ UNCHANGED <<db, issued, seen>>

\* the limiter that keeps a window once it has one
RateLimiterNoReset(c, forwarded, real, now) ==
  /\ conn[c].pc = "idle"
  /\ now >= clock
  /\ clock' = now
  /\ LET ip == IF TruthyStr(forwarded) THEN forwarded[1]
               ELSE IF TruthyStr(real) THEN real[1] ELSE "unknown"
         found == {e \in requests : e.ip = ip}
         userRequests == CHOOSE e \in found : TRUE
         call(err) == [Done("rateLimiter", [forwarded |-> forwarded, real |-> real, ip |-> ip,
                                               now |-> DateNow(now)], err, Absent, db)
                         EXCEPT !.loc = requests]
     IN IF found = {}
        THEN /\ requests' = (requests \ found) \cup
                   {[ip |-> ip, count |-> 1, resetTime |-> DateNow(now) + windowMs]}
             /\ conn' = [conn EXCEPT ![c] = call(NoError)]
        ELSE IF userRequests.count >= maxRequests
        THEN /\ requests' = requests
             /\ conn' = [conn EXCEPT ![c] = call("429 Too many requests")]
        ELSE /\ requests' = (requests \ found) \cup
                   {[userRequests EXCEPT !.count = @ + 1]}
             /\ conn' = [conn EXCEPT ![c] = call(NoError)]
  /\ UNCHANGED <<db, issued, seen>>

\* one call of the function rateLimiter() returns, for a request with the two
\* address headers, at the instant now; the call record keeps the Map as the
\* call found it in loc
RateLimiter(c, forwarded, real, now) ==
  /\ conn[c].pc = "idle"
  /\ now >= clock
  /\ clock' = now
  /\ LET ip == IF TruthyStr(forwarded) THEN forwarded[1]
               ELSE IF TruthyStr(real) THEN real[1] ELSE "unknown"
         found == {e \in requests : e.ip = ip}
         userRequests == CHOOSE e \in found : TRUE
         call(err) == [Done("rateLimiter", [forwarded |-> forwarded, real |-> real, ip |-> ip,
                                               now |-> DateNow(now)], err, Absent, db)
                         EXCEPT !.loc = requests]
     IN IF found = {} \/ DateNow(now) > userRequests.resetTime
        THEN /\ requests' = (requests \ found) \cup
                   {[ip |-> ip, count |-> 1, resetTime |-> DateNow(now) + windowMs]}
             /\ conn' = [conn EXCEPT ![c] = call(NoError)]
        ELSE IF userRequests.count >= maxRequests
        THEN /\ requests' = requests
             /\ conn' = [conn EXCEPT ![c] = call("429 Too many requests")]
        ELSE /\ requests' = (requests \ found) \cup
                   {[userRequests EXCEPT !.count = @ + 1]}
             /\ conn' = [conn EXCEPT ![c] = call(NoError)]
  /\ UNCHANGED <<db, issued, seen>>

\* requests of two clients, one behind a proxy and one without address headers,
\* at the start, at the reset time of the first window and just after it
NextRate ==
  \/ \E forwarded \in Opt({"10.0.0.1", ""}), real \in Opt({"10.0.0.1"}),
        now \in {clock, windowMs \div 1000, windowMs \div 1000 + 1} :
       /\ (~TruthyStr(forwarded) /\ ~TruthyStr(real)) =>
            \A e \in requests : e.ip = "unknown" => e.count < OtherRequests
       /\ RateLimiter(Server, forwarded, real, now)
  \/ Respond(Server)

SpecRate == Init /\ [][NextRate]_vars


\* the entry of the calling client in the Map as the call found it, and the
\* entries of the other clients in a Map
EntryBefore == {e \in conn[Server].loc : e.ip = conn[Server].arg.ip}
OtherEntries(map) == {e \in map : e.ip # conn[Server].arg.ip}
WindowOpen ==
  /\ EntryBefore # {}
  /\ \A e \in EntryBefore : conn[Server].arg.now <= e.resetTime

\* C24: the limiter keys a request by x-forwarded-for, else x-real-ip, else
\* 'unknown'; no window counts more than 100 admitted requests: a request in an
\* open window with fewer than 100 admitted is admitted and counted in that
\* window, a request in an open window with 100 admitted is rejected with 429
\* and leaves the whole Map as it was, and no call touches another key's entry
C24_RateLimitCap ==
  /\ \A e \in requests : e.count >= 1 /\ e.count <= maxRequests
  /\ \A e, f \in requests : e.ip = f.ip => e = f
  /\ Finished("rateLimiter") =>
       /\ conn[Server].arg.ip =
            (IF TruthyStr(conn[Server].arg.forwarded) THEN conn[Server].arg.forwarded[1]
             ELSE IF TruthyStr(conn[Server].arg.real) THEN conn[Server].arg.real[1]
             ELSE "unknown")
       /\ OtherEntries(requests) = OtherEntries(conn[Server].loc)
       /\ WindowOpen =>
            \A e \in EntryBefore :
              IF e.count >= maxRequests
              THEN /\ conn[Server].err = "429 Too many requests"
                   /\ requests = conn[Server].loc
              ELSE /\ conn[Server].err = NoError
                   /\ [e EXCEPT !.count = @ + 1] \in requests

\* a rejected request of one client while another client has an open window
C24_Witness ==
  /\ Failed("rateLimiter")
  /\ OtherEntries(requests) # {}
  /\ \E e \in EntryBefore : e.count = maxRequests

\* C25: the first request a key makes after the reset time of its window has
\* passed is admitted, whatever the window had counted, and starts a window
\* with count 1 whose reset time is 15 minutes after that request; so a key
\* whose window is full is blocked until that reset time and no longer
C25_WindowResets ==
  Finished("rateLimiter") =>
    /\ ~WindowOpen =>
         /\ conn[Server].err = NoError
         /\ [ip |-> conn[Server].arg.ip, count |-> 1,
             resetTime |-> conn[Server].arg.now + 15 * 60 * 1000] \in requests
    /\ conn[Server].err # NoError =>
         \E e \in EntryBefore : conn[Server].arg.now <= e.resetTime

\* a key whose window was full is admitted after the window's reset time
C25_Witness ==
  /\ Succeeded("rateLimiter")
  /\ \E e \in EntryBefore : e.count = maxRequests /\ conn[Server].arg.now > e.resetTime


\* C29: deleteCuisine on a cuisine that a recipe_cuisines row still names fails
\* with an error and leaves the cuisines table and every recipe_cuisines row
\* as they were; on a cuisine no row names it removes that one cuisines row
\* and changes nothing else
C29_DeleteCuisineGuarded ==
  Finished("deleteCuisine") =>
    LET before == conn[Server].pre
        id == conn[Server].arg.id
    IN IF \E rc \in BagToSet(before.recipe_cuisines) : rc.cuisine_id = id
       THEN /\ conn[Server].err # NoError
            /\ db.cuisines = before.cuisines
            /\ db.recipe_cuisines = before.recipe_cuisines
       ELSE /\ conn[Server].err = NoError
            /\ db = [before EXCEPT !.cuisines = {c \in @ : c.id # id}]

\* a delete of a cuisine a recipe is associated with was refused and the
\* cuisine and the association are still stored
C29_Witness ==
  /\ Failed("deleteCuisine")
  /\ conn[Server].arg.id \in Ids(db.cuisines)
  /\ \E rc \in BagToSet(db.recipe_cuisines) : rc.cuisine_id = conn[Server].arg.id



\* ---------------------------------------------------------------------------
\* seed script
\* ---------------------------------------------------------------------------

\* seedDatabase, after waitForInit: createUser, three createCuisine and three
\* createRecipe calls, each in a try whose catch looks the row up when the
\* error is SQLITE_CONSTRAINT_UNIQUE and rethrows anything else; the outer
\* catch logs the error and ends the run. Every call commits on its own.
\* createUser binds user.password_hash to a NOT NULL column, and the seed's
\* user object has no such field.
SeedDatabase(c) ==
  /\ conn[c].pc = "idle"
  /\ LET user == [name |-> "Chef Demo", email |-> "chef@demo.com"]
         created == IF "password_hash" \in DOMAIN user
                    THEN CreateUserDb(db, user.email)
                    ELSE Throw(Begin(db), "SQLITE_CONSTRAINT_NOTNULL")
         existingUser == {u \in db.users : u.email = "chef@demo.com"}
         s1 == IF created.err = UNIQUE /\ existingUser # {}
               THEN [Begin(db) EXCEPT !.ret = (CHOOSE u \in existingUser : TRUE).id]
               ELSE created
         userId == s1.ret
         Cuisine(s, name) ==
           IF s.err # NoError THEN s
           ELSE LET a == CreateCuisineDb(s.db, name)
                    existing == {x \in s.db.cuisines : x.name = name}
                IN IF a.err = UNIQUE /\ existing # {}
                   THEN [s EXCEPT !.ret = (CHOOSE x \in existing : TRUE).id]
                   ELSE a
         s2 == Cuisine(s1, "Italian")
         italianId == s2.ret
         s3 == Cuisine(s2, "Mexican")
         mexicanId == s3.ret
         s4 == Cuisine(s3, "Asian")
         asianId == s4.ret
         Recipe(s, recipe) ==
           IF s.err # NoError THEN s
           ELSE LET id == issued + 1 + Cardinality(s.db.recipes) - Cardinality(db.recipes)
                    a == CreateRecipeDb(s.db, id, recipe, clock)
                    existing == {x \in s.db.recipes : x.name = recipe.name}
                IN IF a.err = UNIQUE /\ existing # {}
                   THEN [s EXCEPT !.ret = (CHOOSE x \in existing : TRUE).id]
                   ELSE a
         Step(n, text) == [step_number |-> n, instruction |-> text]
         Item(name, quantity, unit) == [name |-> name, quantity |-> quantity, unit |-> unit]
         s5 == Recipe(s4,
                 [name |-> "Classic Spaghetti Carbonara",
                  description |-> "A traditional Italian pasta dish with eggs, cheese, and pancetta",
                  author_id |-> Some(userId),
                  cuisines |-> <<italianId>>,
                  ingredients |-> <<Item("Spaghetti", 400, "grams"), Item("Pancetta", 200, "grams"),
                                    Item("Eggs", 4, "whole"),
                                    Item("Parmesan cheese", 100, "grams"),
                                    Item("Black pepper", 1, "teaspoon")>>,
                  steps |-> <<Step(1, "Bring a large pot of salted water to boil"),
                              Step(2, "Cut pancetta into small cubes"),
                              Step(3, "In a bowl, whisk together eggs"),
                              Step(4, "Drain pasta and immediately toss"),
                              Step(5, "Serve immediately")>>])
         s6 == Recipe(s5,
                 [name |-> "Beef Tacos",
                  description |-> "Delicious Mexican-style beef tacos with fresh toppings",
                  author_id |-> Some(userId),
                  cuisines |-> <<mexicanId>>,
                  ingredients |-> <<Item("Ground beef", 500, "grams"),
                                    Item("Taco shells", 8, "pieces"),
                                    Item("Onion", 1, "medium"), Item("Tomatoes", 2, "medium"),
                                    Item("Lettuce", 200, "grams"),
                                    Item("Cheddar cheese", 100, "grams")>>,
                  steps |-> <<Step(1, "Brown the ground beef"), Step(2, "Add diced onions"),
                              Step(3, "Season with taco seasoning"),
                              Step(4, "Warm taco shells"), Step(5, "Fill shells")>>])
         s7 == Recipe(s6,
                 [name |-> "Vegetable Stir Fry",
                  description |-> "Quick and healthy Asian-style vegetable stir fry",
                  author_id |-> Some(userId),
                  cuisines |-> <<asianId>>,
                  ingredients |-> <<Item("Mixed vegetables", 500, "grams"),
                                    Item("Soy sauce", 3, "tablespoons"),
                                    Item("Garlic", 3, "cloves"), Item("Ginger", 1, "tablespoon"),
                                    Item("Vegetable oil", 2, "tablespoons"),
                                    Item("Rice", 200, "grams")>>,
                  steps |-> <<Step(1, "Cook rice"), Step(2, "Heat oil in a large wok"),
                              Step(3, "Add minced garlic and ginger"),
                              Step(4, "Add vegetables and stir-fry"),
                              Step(5, "Add soy sauce and toss to combine")>>])
     IN /\ db' = s7.db
        /\ issued' = issued + Cardinality(s7.db.recipes) - Cardinality(db.recipes)
        /\ conn' = [conn EXCEPT ![c] = Done("seedDatabase", <<>>, s7.err, Absent, db)]
  /\ seen' = Observed(db')
  /\ UNCHANGED <<clock, requests>>

\* SpecSeed: the seed script is run on a database that users, cuisines and
\* recipes are also stored in through the database methods
NextSeed ==
  \/ Request(Server, RaceRecipes, PairCreateBodies, PairUpdateBodies)
  \/ SeedDatabase(Server)
  \/ Respond(Server)

SpecSeed == Init /\ [][NextSeed]_vars

Seeded(d) ==
  /\ \E u \in d.users : u.email = "chef@demo.com"
  /\ {"Italian", "Mexican", "Asian"} \subseteq {x.name : x \in d.cuisines}
  /\ {"Classic Spaghetti Carbonara", "Beef Tacos", "Vegetable Stir Fry"}
       \subseteq {x.name : x \in d.recipes}

\* C30 as claimed: a seed run on the empty initialized database ends with the
\* demo user, the cuisines Italian, Mexican and Asian and the three sample
\* recipes stored, and a seed run on a seeded database changes nothing
C30_SeedCompleteIdempotent ==
  Finished("seedDatabase") =>
    /\ conn[Server].pre = EmptyDb =>
         /\ Seeded(db)
         /\ Cardinality(db.users) = 1
         /\ Cardinality(db.cuisines) = 3
         /\ Cardinality(db.recipes) = 3
    /\ Seeded(conn[Server].pre) => db = conn[Server].pre

====
